---------------------------- MODULE Spec2Model ----------------------------
(***************************************************************************)
(* Verification model of the GitHub Actions helper scripts of the Dias     *)
(* pipeline (eastgenomics/GitHub_Actions).                                  *)
(*                                                                         *)
(* Each script is modelled as its own state machine over its own           *)
(* variables; a specification (SpecWait, SpecTerminate, ...) runs one      *)
(* script and leaves the variables of the others idle.                     *)
(*                                                                         *)
(* Python strings whose characters the code inspects (startswith, string   *)
(* formatting, sorting) are sequences of one-character strings.             *)
(***************************************************************************)
EXTENDS Integers, Sequences, FiniteSets, TLC

VARIABLES
    \* --- check_jobs_complete.py : DXManage.wait_on_done -----------------
    all_job_ids,     \* the argument: list of job / analysis references
    w_pc,            \* "enter" | "loop" | "returned" | "raised"
    w_idx,           \* position of the for loop in all_job_ids (1-based)
    w_calls,         \* the platform wait calls made so far, in order
    w_raised,        \* the exception wait_on_done propagated (NoExc if none)
    w_stdout,        \* lines printed by wait_on_done
    \* --- run_testing_jobs.py : DXManage.terminate -----------------------
    jobs,            \* the argument: list of job / analysis IDs
    t_pc,            \* "idle" | "submit" | "as_completed" | "returned"
    t_futures,       \* the submitted units, in submission order
    t_stdout,        \* lines printed by terminate
    \* --- the required singleton lookups --------------------------------
    l_fn,            \* which lookup runs: "qc" | "multiqc" | "cnv" | "none"
    l_found,         \* what the platform search / describe returns
    l_pc,            \* "idle" | "call" | "returned" | "raised"
    l_ret,           \* the value returned
    l_exc,           \* the exception raised (NoExc if none)
    \* --- get_production_config.py : filter_highest_batch_config --------
    config_files,          \* the argument: found config files, with the
                           \* content DXFile.read() gives for each
    c_pc,                  \* "idle" | "loop" | "returned" | "raised"
    c_idx,                 \* position of the for loop in config_files
    highest_config,        \* the local highest_config ({} at first)
    config_version_files,  \* the defaultdict: version string -> [(name, id)]
    c_read,                \* ids of the files read through dx.DXFile, in order
    c_stdout,              \* lines printed
    c_exc,                 \* the exception raised (NoConfigExc if none)
    \* --- copy_test_data.py : DXManage.call_in_parallel ------------------
    items,           \* the argument: list of (file_id, dest_folder) pairs
    p_pc,            \* "idle" | "submit" | "as_completed" | "exit_returning"
                     \* | "exit_raising" | "returned" | "raised"
    p_futures,       \* the submitted units, in submission order
    results,         \* the local list of results
    p_exc,           \* the exception being raised (NoUnitExc if none)
    p_ret,           \* the value returned to the caller
    p_stdout,        \* lines printed
    p_late,          \* history: units that ended after the loop had
                     \* already met an exception
    \* --- one call of a helper method of the scripts ---------------------
    fn,              \* the method called ("none" when there is no call)
    fn_args,         \* its arguments, and what the platform answers to the
                     \* requests it makes
    fn_pc,           \* "idle" | "call" | "returned" | "raised"
    fn_ret,          \* the value returned
    fn_exc,          \* the exception raised (NoExc if none)
    fn_calls,        \* the platform requests made and lines printed, in order
    fn_world,        \* the platform objects the method reads and changes
    \* --- main() of run_testing_jobs.py and of copy_test_data.py ---------
    m_script,        \* the script that runs ("none" when none does)
    m_args,          \* the parsed command line
    m_pc,            \* the step main is at, or "idle" | "returned" | "raised"
    m_done,          \* history: the steps main has called, in order
    m_env,           \* main's local variables, and the out file
    m_exc,           \* the exception that ended main (NoExc if none)
    m_launched,      \* history: the IDs of the jobs this invocation launched
    project_executions, \* the platform: the executions in the test project
    \* --- invocations of a get-or-create-project script -------------------
    inv_script,      \* the script invoked ("none" when none is)
    inv_args,        \* the command line the invocations share
    inv_concurrent,  \* whether the invocations may overlap in time
    inv,             \* per invocation: where it is and what it holds
    cloud_projects   \* the platform: the projects, in creation order

waitVars == <<all_job_ids, w_pc, w_idx, w_calls, w_raised, w_stdout>>
termVars == <<jobs, t_pc, t_futures, t_stdout>>
lookVars == <<l_fn, l_found, l_pc, l_ret, l_exc>>
confVars == <<config_files, c_pc, c_idx, highest_config, config_version_files,
              c_read, c_stdout, c_exc>>

poolVars == <<items, p_pc, p_futures, results, p_exc, p_ret, p_stdout, p_late>>

callVars == <<fn, fn_args, fn_pc, fn_ret, fn_exc, fn_calls, fn_world>>

mainVars == <<m_script, m_args, m_pc, m_done, m_env, m_exc, m_launched,
              project_executions>>

invVars == <<inv_script, inv_args, inv_concurrent, inv, cloud_projects>>

vars == <<waitVars, termVars, lookVars, confVars, poolVars, callVars, mainVars,
          invVars>>

\* the variables a script leaves alone
notWait == <<termVars, lookVars, confVars, poolVars, callVars, mainVars, invVars>>
notTerm == <<waitVars, lookVars, confVars, poolVars, callVars, mainVars, invVars>>
notLook == <<waitVars, termVars, confVars, poolVars, callVars, mainVars, invVars>>
notConf == <<waitVars, termVars, lookVars, poolVars, callVars, mainVars, invVars>>
notPool == <<waitVars, termVars, lookVars, confVars, callVars, mainVars, invVars>>
notCall == <<waitVars, termVars, lookVars, confVars, poolVars, mainVars, invVars>>
notMain == <<waitVars, termVars, lookVars, confVars, poolVars, callVars, invVars>>
\* main while it calls terminate
notMainTerm == <<waitVars, lookVars, confVars, poolVars, callVars, invVars>>
\* main while it calls wait_on_done
notMainWait == <<termVars, lookVars, confVars, poolVars, callVars, invVars>>
notInv == <<waitVars, termVars, lookVars, confVars, poolVars, callVars, mainVars>>

(***************************************************************************)
(* Strings                                                                 *)
(***************************************************************************)

\* str.startswith(prefix)
StartsWith(s, prefix) ==
    /\ Len(s) >= Len(prefix)
    /\ SubSeq(s, 1, Len(prefix)) = prefix

\* `sub in s` for strings: sub occurs as a contiguous run of characters
Contains(s, sub) ==
    \E i \in 1..(Len(s) - Len(sub) + 1) : SubSeq(s, i, i + Len(sub) - 1) = sub

\* the literal 'job-' tested by wait_on_done
job_dash == <<"j", "o", "b", "-">>

\* reference strings used as inputs
job_1 == <<"j", "o", "b", "-", "1">>
job_2 == <<"j", "o", "b", "-", "2">>
analysis_1 == <<"a", "n", "a", "l", "y", "s", "i", "s", "-", "1">>
jobX == <<"j", "o", "b", "X">>

Refs == {job_1, job_2, analysis_1, jobX}

\* longest list of references handed to wait_on_done
MaxRefs == 3

RECURSIVE SeqsUpTo(_, _)
\* all sequences over S of length at most n
SeqsUpTo(S, n) ==
    IF n = 0 THEN {<<>>}
    ELSE LET shorter == SeqsUpTo(S, n - 1)
         IN  shorter \cup {Append(s, x) : s \in {t \in shorter : Len(t) = n - 1}, x \in S}

(***************************************************************************)
(* Exceptions                                                              *)
(***************************************************************************)

NoExc == [type |-> "None", msg |-> <<>>]

\* messages carried by the faults the platform raises
msg_oh_no == <<"o", "h", " ", "n", "o">>
msg_timed_out == <<"t", "i", "m", "e", "d", " ", "o", "u", "t">>
PlatformMsgs == {msg_oh_no, msg_timed_out}

\* what one blocking dx wait_on_done() call can do: return, raise the
\* job-failure fault, or raise some other platform fault
WaitOutcomes ==
    {NoExc}
        \cup {[type |-> "DXJobFailureError", msg |-> m] : m \in PlatformMsgs}
        \cup {[type |-> "DXError", msg |-> m] : m \in PlatformMsgs}

(***************************************************************************)
(* check_jobs_complete.py : DXManage.wait_on_done                          *)
(***************************************************************************)

\* a dispatch that has lost the analysis branch
WaitKindAlwaysJob(job) == "DXJob"

\* `if job.startswith('job-')`: which wait primitive is used
WaitKind(job) == IF StartsWith(job, job_dash) THEN "DXJob" ELSE "DXAnalysis"

\* f"Job {job} failed:\n\n{err}"
JobFailedMsg(job, err) ==
    <<"J", "o", "b", " ">> \o job
        \o <<" ", "f", "a", "i", "l", "e", "d", ":", "\n", "\n">> \o err

\* f"Analysis with ID {job} failed:\n\n{err}"
AnalysisFailedMsg(job, err) ==
    <<"A", "n", "a", "l", "y", "s", "i", "s", " ", "w", "i", "t", "h", " ",
      "I", "D", " ">> \o job
        \o <<" ", "f", "a", "i", "l", "e", "d", ":", "\n", "\n">> \o err

\* an except clause that re-raises the platform fault as it came
WaitExceptBare(job, out) == out

\* the try/except around one wait call: the exception leaving it
\* (NoExc when the call returned).  Only DXJobFailureError is caught.
WaitExcept(job, out) ==
    IF out.type = "DXJobFailureError"
    THEN [type |-> "DXJobFailureError",
          msg  |-> IF WaitKind(job) = "DXJob"
                   THEN JobFailedMsg(job, out.msg)
                   ELSE AnalysisFailedMsg(job, out.msg)]
    ELSE out

\* lines printed by the except clause (the analysis branch prints one)
WaitExceptPrints(job, out) ==
    IF out.type = "DXJobFailureError" /\ WaitKind(job) = "DXAnalysis"
    THEN <<"Stages of analysis failed:">>
    ELSE <<>>

\* a loop that swallows the fault and goes on to the next reference
WaitAfterSwallow(exc) == "loop"

\* control after one loop body: an exception leaves the function
WaitAfter(exc) == IF exc = NoExc THEN "loop" ELSE "raised"

\* wait_on_done is called with some list of references
WaitStart ==
    /\ all_job_ids \in SeqsUpTo(Refs, MaxRefs)
    /\ w_pc = "enter"
    /\ w_idx = 1
    /\ w_calls = <<>>
    /\ w_raised = NoExc
    /\ w_stdout = <<>>

\* wait_on_done is not called
WaitIdle ==
    /\ all_job_ids = <<>>
    /\ w_pc = "idle"
    /\ w_idx = 1
    /\ w_calls = <<>>
    /\ w_raised = NoExc
    /\ w_stdout = <<>>

\* print(f'Holding check until {len(all_job_ids)} job(s)/analyses complete')
wait_on_done_enter ==
    /\ w_pc = "enter"
    /\ w_pc' = "loop"
    /\ w_stdout' = Append(w_stdout, "Holding check until")
    /\ UNCHANGED <<all_job_ids, w_idx, w_calls, w_raised>>
    /\ UNCHANGED notWait

\* one iteration of `for job in all_job_ids`
wait_on_done_step ==
    /\ w_pc = "loop"
    /\ w_idx <= Len(all_job_ids)
    /\ \E out \in WaitOutcomes :
         LET job == all_job_ids[w_idx]
             exc == WaitExcept(job, out)
         IN  /\ w_calls' = Append(w_calls,
                    [kind |-> WaitKind(job), dxid |-> job, outcome |-> out])
             /\ w_raised' = exc
             /\ w_stdout' = w_stdout \o WaitExceptPrints(job, out)
             /\ w_pc' = WaitAfter(exc)
             /\ w_idx' = IF WaitAfter(exc) = "loop" THEN w_idx + 1 ELSE w_idx
    /\ UNCHANGED all_job_ids
    /\ UNCHANGED notWait

\* the loop is exhausted: print("All jobs completed successfully!")
wait_on_done_return ==
    /\ w_pc = "loop"
    /\ w_idx > Len(all_job_ids)
    /\ w_pc' = "returned"
    /\ w_stdout' = Append(w_stdout, "All jobs completed successfully!")
    /\ UNCHANGED <<all_job_ids, w_idx, w_calls, w_raised>>
    /\ UNCHANGED notWait

NextWait ==
    \/ wait_on_done_enter
    \/ wait_on_done_step
    \/ wait_on_done_return

(***************************************************************************)
(* run_testing_jobs.py : DXManage.terminate                                *)
(* (check_jobs_complete.py at the repository root holds the same method)   *)
(***************************************************************************)

\* the characters of the reference strings, in code point order
Alphabet == <<"-", "1", "2", "X", "a", "b", "i", "j", "l", "n", "o", "s", "y">>

\* ord(c), up to the order it induces
Ord(c) == CHOOSE i \in 1..Len(Alphabet) : Alphabet[i] = c

RECURSIVE StrLess(_, _)
\* a < b for Python strings: lexicographic by code point
StrLess(a, b) ==
    IF b = <<>> THEN FALSE
    ELSE IF a = <<>> THEN TRUE
    ELSE IF Head(a) # Head(b) THEN Ord(Head(a)) < Ord(Head(b))
    ELSE StrLess(Tail(a), Tail(b))

RECURSIVE InsertReverse(_, _)
\* x put into the descending list s, after the elements not below it
InsertReverse(s, x) ==
    IF s = <<>> THEN <<x>>
    ELSE IF StrLess(Head(s), x) THEN <<x>> \o s
    ELSE <<Head(s)>> \o InsertReverse(Tail(s), x)

RECURSIVE SortedReverse(_)
\* sorted(jobs, reverse=True)
SortedReverse(s) ==
    IF s = <<>> THEN <<>>
    ELSE InsertReverse(SortedReverse(SubSeq(s, 1, Len(s) - 1)), s[Len(s)])

\* longest list of IDs handed to terminate
MaxJobs == 3

\* ThreadPoolExecutor(max_workers=32)
terminate_max_workers == 32

\* the literal 'job' tested by terminate_one
job_nodash == <<"j", "o", "b">>

\* `if job.startswith('job')` in terminate_one: which terminate call is used
TerminateKind(job) ==
    IF StartsWith(job, job_nodash) THEN "DXJob" ELSE "DXAnalysis"

\* what one dx terminate() call can do: return or raise
TerminateOutcomes == {NoExc, [type |-> "DXError", msg |-> msg_oh_no]}

\* executor.submit(terminate_one, id): a new pending future
NewFuture(id) ==
    [dxid |-> id, state |-> "pending", exc |-> NoExc, calls |-> <<>>,
     yielded |-> FALSE]

\* an except clause that passes in silence
TerminatePrintsNothing(fut) == <<>>

\* `except Exception as exc: print(...)`: the lines printed for one future
TerminatePrints(fut) ==
    IF fut.exc # NoExc
    THEN <<[text |-> "Error terminating job ", dxid |-> fut.dxid, exc |-> fut.exc.msg]>>
    ELSE <<>>

Running(futures) == {i \in 1..Len(futures) : futures[i].state = "running"}
Pending(futures) == {i \in 1..Len(futures) : futures[i].state = "pending"}

\* terminate is called with some list of IDs
TermStart ==
    /\ jobs \in SeqsUpTo(Refs \ {job_2}, MaxJobs)
    /\ t_pc = "submit"
    /\ t_futures = <<>>
    /\ t_stdout = <<>>

\* terminate is not called
TermIdle ==
    /\ jobs = <<>>
    /\ t_pc = "idle"
    /\ t_futures = <<>>
    /\ t_stdout = <<>>

\* the dict comprehension: one executor.submit per ID, in reverse sorted order
terminate_submit ==
    /\ t_pc = "submit"
    /\ Len(t_futures) < Len(jobs)
    /\ t_futures' = Append(t_futures,
                           NewFuture(SortedReverse(jobs)[Len(t_futures) + 1]))
    /\ UNCHANGED <<jobs, t_pc, t_stdout>>
    /\ UNCHANGED notTerm

\* every ID is submitted: the as_completed loop starts
terminate_submitted ==
    /\ t_pc = "submit"
    /\ Len(t_futures) = Len(jobs)
    /\ t_pc' = "as_completed"
    /\ UNCHANGED <<jobs, t_futures, t_stdout>>
    /\ UNCHANGED notTerm

\* a worker thread of the pool takes the oldest queued unit
terminate_worker_start ==
    /\ Pending(t_futures) # {}
    /\ Cardinality(Running(t_futures)) < terminate_max_workers
    /\ LET i == CHOOSE k \in Pending(t_futures) :
                    \A m \in Pending(t_futures) : k <= m
       IN  t_futures' = [t_futures EXCEPT ![i].state = "running"]
    /\ UNCHANGED <<jobs, t_pc, t_stdout>>
    /\ UNCHANGED notTerm

\* terminate_one(job) runs in its worker: the dx terminate call
terminate_one ==
    /\ \E i \in Running(t_futures), out \in TerminateOutcomes :
         t_futures' = [t_futures EXCEPT
                          ![i].state = "finished",
                          ![i].exc = out,
                          ![i].calls = Append(@, TerminateKind(t_futures[i].dxid))]
    /\ UNCHANGED <<jobs, t_pc, t_stdout>>
    /\ UNCHANGED notTerm

\* one iteration of `for future in as_completed(...)`: future.result()
terminate_result ==
    /\ t_pc = "as_completed"
    /\ \E i \in 1..Len(t_futures) :
         /\ t_futures[i].state = "finished"
         /\ ~t_futures[i].yielded
         /\ t_futures' = [t_futures EXCEPT ![i].yielded = TRUE]
         /\ t_stdout' = t_stdout \o TerminatePrints(t_futures[i])
    /\ UNCHANGED <<jobs, t_pc>>
    /\ UNCHANGED notTerm

\* the loop is exhausted; the executor is left (every unit has finished)
\* and print("Terminated all current jobs.")
terminate_return ==
    /\ t_pc = "as_completed"
    /\ \A i \in 1..Len(t_futures) : t_futures[i].yielded
    /\ t_pc' = "returned"
    /\ t_stdout' = Append(t_stdout,
           [text |-> "Terminated all current jobs.", dxid |-> <<>>, exc |-> <<>>])
    /\ UNCHANGED <<jobs, t_futures>>
    /\ UNCHANGED notTerm

NextTerminate ==
    \/ terminate_submit
    \/ terminate_submitted
    \/ terminate_worker_start
    \/ terminate_one
    \/ terminate_result
    \/ terminate_return

(***************************************************************************)
(* The required singleton lookups                                          *)
(*   copy_test_data.py    : DXManage.find_qc_status_file_in_project        *)
(*   run_testing_jobs.py  : DXManage.find_multiqc_report_in_proj           *)
(*   run_testing_jobs.py  : DXManage.get_cnv_calling_job_id                *)
(***************************************************************************)

\* most objects a search returns
MaxFound == 3

project_1 == <<"p", "r", "o", "j", "e", "c", "t", "-", "1">>
file_1 == <<"f", "i", "l", "e", "-", "1">>
file_2 == <<"f", "i", "l", "e", "-", "2">>
\* args.assay_job_id
assay_job_id == <<"j", "o", "b", "-", "0">>

\* names of launched jobs, as dx.describe(job)['name'] gives them
name_cnv == <<"r", "u", "n", "_", "G", "A", "T", "K", "g", "C", "N", "V">>
name_artemis == <<"e", "g", "g", "d", "_", "a", "r", "t", "e", "m", "i", "s">>
GATKgCNV == <<"G", "A", "T", "K", "g", "C", "N", "V">>

\* Python values returned by the lookups
None == [kind |-> "None", value |-> <<>>]
Str(s) == [kind |-> "str", value |-> s]

\* what dx.find_data_objects(project=project_1, ...) can return
FoundFiles == SeqsUpTo({[project |-> project_1, id |-> f] : f \in {file_1, file_2}},
                       MaxFound)

\* the launched_jobs output split on ',' , each ID with the name describe gives
LaunchedLists ==
    SeqsUpTo({[id |-> r, name |-> n] :
                 r \in {job_1, job_2, analysis_1}, n \in {name_cnv, name_artemis}},
             MaxFound)

\* f"{x['project']}:{x['id']}"
ProjectFileId(x) == x.project \o <<":">> \o x.id

AssertionError(m) == [type |-> "AssertionError", msg |-> m]

QcMultipleMsg ==
    <<"E", "r", "r", "o", "r", ":", " ", "M", "u", "l", "t", "i", "p", "l",
      "e", " ", "Q", "C", " ", "s", "t", "a", "t", "u", "s", " ", "f",
      "i", "l", "e", "(", "s", ")", " ", "f", "o", "u", "n", "d", " ",
      "i", "n", " ", "p", "r", "o", "j", "e", "c", "t">>

MultiqcMsg(project_id) ==
    <<"E", "r", "r", "o", "r", ":", " ", "N", "o", " ", "o", "r", " ", "m",
      "u", "l", "t", "i", "p", "l", "e", " ", "M", "u", "l", "t", "i",
      "Q", "C", " ", "r", "e", "p", "o", "r", "t", "(", "s", ")", " ",
      "f", "o", "u", "n", "d", " ", "i", "n", " ", "p", "r", "o", "j",
      "e", "c", "t", " ">>
        \o project_id

NoJobsLaunchedMsg ==
    <<"E", "r", "r", "o", "r", ":", " ", "N", "o", " ", "j", "o", "b", "s",
      " ", "w", "e", "r", "e", " ", "l", "a", "u", "n", "c", "h", "e",
      "d", " ", "b", "y", " ", "e", "g", "g", "d", "_", "d", "i", "a",
      "s", "_", "b", "a", "t", "c", "h", " ", "j", "o", "b", " ">>
        \o assay_job_id \o <<" ", "g", "i", "v", "e", "n">>

CnvMsg ==
    <<"E", "r", "r", "o", "r", ":", " ", "N", "o", " ", "o", "r", " ", "m",
      "u", "l", "t", "i", "p", "l", "e", " ", "C", "N", "V", " ", "c",
      "a", "l", "l", "i", "n", "g", " ", "j", "o", "b", "s", " ", "l",
      "a", "u", "n", "c", "h", "e", "d", " ", "b", "y", " ", "e", "g",
      "g", "d", "_", "d", "i", "a", "s", "_", "b", "a", "t", "c", "h",
      " ", "j", "o", "b", " ">>
        \o assay_job_id \o <<" ", "g", "i", "v", "e", "n">>

\* a lookup that takes the first of several QC status files
find_qc_status_file_first(qc_status_file) ==
    IF qc_status_file # <<>>
    THEN [exc |-> NoExc, ret |-> Str(ProjectFileId(qc_status_file[1]))]
    ELSE [exc |-> NoExc, ret |-> None]

\* find_qc_status_file_in_project, given the search result
find_qc_status_file_in_project(qc_status_file) ==
    IF qc_status_file # <<>>
    THEN IF Len(qc_status_file) = 1
         THEN [exc |-> NoExc, ret |-> Str(ProjectFileId(qc_status_file[1]))]
         ELSE [exc |-> AssertionError(QcMultipleMsg), ret |-> None]
    ELSE [exc |-> NoExc, ret |-> None]

\* find_multiqc_report_in_proj, given the search result
find_multiqc_report_in_proj(project_id, multiqc_reports) ==
    IF Len(multiqc_reports) = 1
    THEN [exc |-> NoExc, ret |-> Str(ProjectFileId(multiqc_reports[1]))]
    ELSE [exc |-> AssertionError(MultiqcMsg(project_id)), ret |-> None]

\* get_cnv_calling_job_id, given the launched list and the described names
get_cnv_calling_job_id(launched_list) ==
    LET IsJob(x) == StartsWith(x.id, job_dash)
        IsCnv(x) == Contains(x.name, GATKgCNV)
        launched_jobs == SelectSeq(launched_list, IsJob)
        cnv_calling_jobs == SelectSeq(launched_jobs, IsCnv)
    IN  IF launched_jobs = <<>>
        THEN [exc |-> AssertionError(NoJobsLaunchedMsg), ret |-> None]
        ELSE IF Len(cnv_calling_jobs) # 1
        THEN [exc |-> AssertionError(CnvMsg), ret |-> None]
        ELSE [exc |-> NoExc, ret |-> Str(cnv_calling_jobs[1].id)]

\* one of the lookups is called
LookStart ==
    /\ \/ l_fn \in {"qc", "multiqc"} /\ l_found \in FoundFiles
       \/ l_fn = "cnv" /\ l_found \in LaunchedLists
    /\ l_pc = "call"
    /\ l_ret = None
    /\ l_exc = NoExc

\* no lookup is called
LookIdle ==
    /\ l_fn = "none"
    /\ l_found = <<>>
    /\ l_pc = "idle"
    /\ l_ret = None
    /\ l_exc = NoExc

\* the lookup finishes with `out`: it raises or returns
LookFinish(out) ==
    /\ l_pc' = IF out.exc = NoExc THEN "returned" ELSE "raised"
    /\ l_ret' = out.ret
    /\ l_exc' = out.exc
    /\ UNCHANGED <<l_fn, l_found>>
    /\ UNCHANGED notLook

call_find_qc_status_file_in_project ==
    /\ l_pc = "call"
    /\ l_fn = "qc"
    /\ LookFinish(find_qc_status_file_in_project(l_found))

call_find_multiqc_report_in_proj ==
    /\ l_pc = "call"
    /\ l_fn = "multiqc"
    /\ LookFinish(find_multiqc_report_in_proj(project_1, l_found))

call_get_cnv_calling_job_id ==
    /\ l_pc = "call"
    /\ l_fn = "cnv"
    /\ LookFinish(get_cnv_calling_job_id(l_found))

NextLookup ==
    \/ call_find_qc_status_file_in_project
    \/ call_find_multiqc_report_in_proj
    \/ call_get_cnv_calling_job_id

(***************************************************************************)
(* get_production_config.py : DXManage.filter_highest_batch_config         *)
(***************************************************************************)

\* A version string is the sequence of its dot-separated numbers:
\* "1.2" is <<1, 2>> and "1.2.0" is <<1, 2, 0>>, two different strings.
v_0 == <<0>>
v_1_2 == <<1, 2>>
v_1_2_0 == <<1, 2, 0>>
v_1_10 == <<1, 10>>
ConfigVersions == {v_0, v_1_2, v_1_2_0, v_1_10}

\* most config files in the searched path
MaxConfigs == 3

RECURSIVE VersionKey(_)
\* packaging.version.Version(v): the release with its trailing zeros dropped
VersionKey(v) ==
    IF v = <<>> THEN <<>>
    ELSE IF v[Len(v)] = 0 THEN VersionKey(SubSeq(v, 1, Len(v) - 1))
    ELSE v

RECURSIVE TupleLess(_, _)
\* a < b for tuples of integers
TupleLess(a, b) ==
    IF b = <<>> THEN FALSE
    ELSE IF a = <<>> THEN TRUE
    ELSE IF Head(a) # Head(b) THEN Head(a) < Head(b)
    ELSE TupleLess(Tail(a), Tail(b))

\* Version(a) > Version(b)
VersionGreater(a, b) == TupleLess(VersionKey(b), VersionKey(a))

\* Version(a) == Version(b)
VersionEqual(a, b) == VersionKey(a) = VersionKey(b)

\* the assay argument
assay == "TWE"

\* what can be found at one position of the search result: the archival
\* state of the file and the JSON content (assay, version) reading it gives;
\* configs of the requested assay take every version, configs of another
\* assay the greatest one
ConfigContents ==
    {[archivalState |-> state, assay |-> "TWE", version |-> v] :
        state \in {"live", "archived"}, v \in ConfigVersions}
        \cup {[archivalState |-> state, assay |-> "CEN", version |-> v_1_10] :
                 state \in {"live", "archived"}}

\* the file found at position k of the search result
ConfigFile(k, content) ==
    [id |-> <<"file-", k>>, name |-> <<"config", k, ".json">>,
     archivalState |-> content.archivalState, assay |-> content.assay,
     version |-> content.version]

\* the search results of n files
ConfigLists(n) ==
    {[k \in 1..n |-> ConfigFile(k, contents[k])] :
        contents \in [1..n -> ConfigContents]}

\* highest_config = {}
EmptyDict == [empty |-> TRUE, assay |-> "", version |-> <<>>, dxid |-> <<>>, name |-> <<>>]

\* highest_config.get('version', '0')
VersionOrZero(config) == IF config.empty THEN v_0 ELSE config.version

NoConfigExc == [type |-> "None", assay |-> "", files |-> <<>>]

\* a check that lets every archival state through
IsLiveAlways(file) == TRUE

\* file['describe']['archivalState'] == 'live'
IsLive(file) == file.archivalState = "live"

\* config_data with dxid and name added
ConfigData(file) ==
    [empty |-> FALSE, assay |-> file.assay, version |-> file.version,
     dxid |-> file.id, name |-> file.name]

\* filter_highest_batch_config is called with some search result
ConfStart ==
    /\ config_files \in UNION {ConfigLists(n) : n \in 0..MaxConfigs}
    /\ c_pc = "loop"
    /\ c_idx = 1
    /\ highest_config = EmptyDict
    /\ config_version_files = [v \in ConfigVersions |-> <<>>]
    /\ c_read = <<>>
    /\ c_stdout = <<>>
    /\ c_exc = NoConfigExc

\* filter_highest_batch_config is not called
ConfIdle ==
    /\ config_files = <<>>
    /\ c_pc = "idle"
    /\ c_idx = 1
    /\ highest_config = EmptyDict
    /\ config_version_files = [v \in ConfigVersions |-> <<>>]
    /\ c_read = <<>>
    /\ c_stdout = <<>>
    /\ c_exc = NoConfigExc

\* one iteration of `for file in config_files`
filter_highest_batch_config_step ==
    /\ c_pc = "loop"
    /\ c_idx <= Len(config_files)
    /\ LET file == config_files[c_idx]
       IN  IF ~IsLive(file)
           THEN \* print and continue
                /\ c_stdout' = Append(c_stdout,
                       [text |-> "Config file not in live state - will not be used:",
                        name |-> file.name, id |-> file.id])
                /\ UNCHANGED <<highest_config, config_version_files, c_read>>
           ELSE /\ c_read' = Append(c_read, file.id)
                /\ UNCHANGED c_stdout
                /\ IF file.assay # assay
                   THEN UNCHANGED <<highest_config, config_version_files>>
                   ELSE /\ config_version_files' =
                              [config_version_files EXCEPT
                                  ![file.version] = Append(@, <<file.name, file.id>>)]
                        /\ highest_config' =
                              IF VersionGreater(file.version,
                                                VersionOrZero(highest_config))
                              THEN ConfigData(file)
                              ELSE highest_config
    /\ c_idx' = c_idx + 1
    /\ UNCHANGED <<config_files, c_pc, c_exc>>
    /\ UNCHANGED notConf

\* after the loop: the two checks, then the return
filter_highest_batch_config_finish ==
    /\ c_pc = "loop"
    /\ c_idx > Len(config_files)
    /\ IF highest_config.empty
       THEN /\ c_pc' = "raised"
            /\ c_exc' = [type |-> "AssertionError", assay |-> assay, files |-> <<>>]
            /\ UNCHANGED c_stdout
       ELSE IF Len(config_version_files[highest_config.version]) > 1
       THEN /\ c_pc' = "raised"
            /\ c_exc' = [type |-> "RuntimeError", assay |-> assay,
                         files |-> config_version_files[highest_config.version]]
            /\ UNCHANGED c_stdout
       ELSE /\ c_pc' = "returned"
            /\ c_stdout' = Append(c_stdout,
                   [text |-> "Highest version config found",
                    name |-> highest_config.version, id |-> highest_config.dxid])
            /\ UNCHANGED c_exc
    /\ UNCHANGED <<config_files, c_idx, highest_config, config_version_files, c_read>>
    /\ UNCHANGED notConf

NextConfig ==
    \/ filter_highest_batch_config_step
    \/ filter_highest_batch_config_finish

(***************************************************************************)
(* copy_test_data.py : DXManage.call_in_parallel                           *)
(***************************************************************************)

\* longest list of items handed to call_in_parallel
MaxItems == 3

\* ThreadPoolExecutor(max_workers=8)
call_in_parallel_max_workers == 8

\* the (file_id, dest_folder) pairs used as items
ItemPairs == {<<"file-xx", "folder-1">>, <<"file-yy", "folder-2">>}

\* exception types func may raise
FuncExcTypes == {"DXError", "ResourceNotFound"}

NoUnitExc == [type |-> "None", unit |-> 0]

\* the exception object raised by the call of func in unit i
UnitExc(type, i) == [type |-> type, unit |-> i]

\* what func(file_id, dest_folder) returns
FuncResult(item) == [moved |-> item]

NoResult == [moved |-> <<>>]

\* executor.submit(func, file_id, dest_folder): a new pending future
NewUnit(item) ==
    [item |-> item, state |-> "pending", exc |-> NoUnitExc, result |-> NoResult,
     calls |-> 0, yielded |-> FALSE]

PoolOf(futures, state) == {i \in 1..Len(futures) : futures[i].state = state}

\* an except clause that prints and goes on with the loop
PoolAfterResultSwallow(exc) == "as_completed"

\* control after one future.result(): `raise exc` leaves the loop
PoolAfterResult(exc) == IF exc = NoUnitExc THEN "as_completed" ELSE "exit_raising"

\* an executor shut down with wait=False
ShutdownNoWait(futures) == TRUE

\* leaving the `with` block is executor.shutdown(wait=True): it returns when
\* every submitted unit has run to its end
ShutdownWaitDone(futures) == \A i \in 1..Len(futures) : futures[i].state = "finished"

\* call_in_parallel is called with some list of items
PoolStart ==
    /\ items \in SeqsUpTo(ItemPairs, MaxItems)
    /\ p_pc = "submit"
    /\ p_futures = <<>>
    /\ results = <<>>
    /\ p_exc = NoUnitExc
    /\ p_ret = None
    /\ p_stdout = <<>>
    /\ p_late = {}

\* call_in_parallel is not called
PoolIdle ==
    /\ items = <<>>
    /\ p_pc = "idle"
    /\ p_futures = <<>>
    /\ results = <<>>
    /\ p_exc = NoUnitExc
    /\ p_ret = None
    /\ p_stdout = <<>>
    /\ p_late = {}

\* the dict comprehension: one executor.submit per item
call_in_parallel_submit ==
    /\ p_pc = "submit"
    /\ Len(p_futures) < Len(items)
    /\ p_futures' = Append(p_futures, NewUnit(items[Len(p_futures) + 1]))
    /\ UNCHANGED <<items, p_pc, results, p_exc, p_ret, p_stdout, p_late>>
    /\ UNCHANGED notPool

\* every item is submitted: the as_completed loop starts
call_in_parallel_submitted ==
    /\ p_pc = "submit"
    /\ Len(p_futures) = Len(items)
    /\ p_pc' = "as_completed"
    /\ UNCHANGED <<items, p_futures, results, p_exc, p_ret, p_stdout, p_late>>
    /\ UNCHANGED notPool

\* a worker thread of the pool takes the oldest queued unit
pool_worker_start ==
    /\ PoolOf(p_futures, "pending") # {}
    /\ Cardinality(PoolOf(p_futures, "running")) < call_in_parallel_max_workers
    /\ LET i == CHOOSE k \in PoolOf(p_futures, "pending") :
                    \A m \in PoolOf(p_futures, "pending") : k <= m
       IN  p_futures' = [p_futures EXCEPT ![i].state = "running"]
    /\ UNCHANGED <<items, p_pc, results, p_exc, p_ret, p_stdout, p_late>>
    /\ UNCHANGED notPool

\* func(file_id, dest_folder) runs in its worker and returns
pool_func_returns ==
    /\ \E i \in PoolOf(p_futures, "running") :
         /\ p_futures' = [p_futures EXCEPT
                             ![i].state = "finished",
                             ![i].calls = @ + 1,
                             ![i].result = FuncResult(p_futures[i].item)]
         /\ p_late' = IF p_pc = "exit_raising" THEN p_late \cup {i} ELSE p_late
    /\ UNCHANGED <<items, p_pc, results, p_exc, p_ret, p_stdout>>
    /\ UNCHANGED notPool

\* func(file_id, dest_folder) runs in its worker and raises
pool_func_raises ==
    /\ \E i \in PoolOf(p_futures, "running"), type \in FuncExcTypes :
         /\ p_futures' = [p_futures EXCEPT
                             ![i].state = "finished",
                             ![i].calls = @ + 1,
                             ![i].exc = UnitExc(type, i)]
         /\ p_late' = IF p_pc = "exit_raising" THEN p_late \cup {i} ELSE p_late
    /\ UNCHANGED <<items, p_pc, results, p_exc, p_ret, p_stdout>>
    /\ UNCHANGED notPool

\* one iteration of `for future in as_completed(...)`:
\* results.append(future.result()), or print and `raise exc`
call_in_parallel_result ==
    /\ p_pc = "as_completed"
    /\ \E i \in PoolOf(p_futures, "finished") :
         /\ ~p_futures[i].yielded
         /\ p_futures' = [p_futures EXCEPT ![i].yielded = TRUE]
         /\ LET exc == p_futures[i].exc
            IN  /\ results' = IF exc = NoUnitExc
                              THEN Append(results, p_futures[i].result)
                              ELSE results
                /\ p_stdout' = IF exc = NoUnitExc THEN p_stdout
                               ELSE Append(p_stdout,
                                        [text |-> "Error getting data for",
                                         item |-> p_futures[i].item, exc |-> exc])
                /\ p_pc' = PoolAfterResult(exc)
                /\ p_exc' = IF PoolAfterResult(exc) = "exit_raising" THEN exc ELSE p_exc
    /\ UNCHANGED <<items, p_ret, p_late>>
    /\ UNCHANGED notPool

\* the loop is exhausted: control reaches the end of the `with` block
call_in_parallel_loop_end ==
    /\ p_pc = "as_completed"
    /\ \A i \in 1..Len(p_futures) : p_futures[i].yielded
    /\ p_pc' = "exit_returning"
    /\ UNCHANGED <<items, p_futures, results, p_exc, p_ret, p_stdout, p_late>>
    /\ UNCHANGED notPool

\* the `with` block is left (ThreadPoolExecutor.__exit__); then the
\* exception propagates to the caller, or `return results`
call_in_parallel_exit ==
    /\ p_pc \in {"exit_returning", "exit_raising"}
    /\ ShutdownWaitDone(p_futures)
    /\ p_pc' = IF p_pc = "exit_raising" THEN "raised" ELSE "returned"
    /\ p_ret' = IF p_pc = "exit_raising" THEN None
                ELSE [kind |-> "list", value |-> results]
    /\ UNCHANGED <<items, p_futures, results, p_exc, p_stdout, p_late>>
    /\ UNCHANGED notPool

NextPool ==
    \/ call_in_parallel_submit
    \/ call_in_parallel_submitted
    \/ pool_worker_start
    \/ pool_func_returns
    \/ pool_func_raises
    \/ call_in_parallel_result
    \/ call_in_parallel_loop_end
    \/ call_in_parallel_exit

(***************************************************************************)
(* Helper methods called on their own                                      *)
(*   run_testing_jobs.py, check_jobs_complete.py (root) :                  *)
(*       DXManage.find_non_terminal_jobs                                   *)
(***************************************************************************)

\* no helper method is called
CallIdle ==
    /\ fn = "none"
    /\ fn_args = <<>>
    /\ fn_pc = "idle"
    /\ fn_ret = None
    /\ fn_exc = NoExc
    /\ fn_calls = <<>>
    /\ fn_world = <<>>

\* the method called finishes with `out`: it raises or returns, having made
\* the requests and printed the lines of out.calls
CallFinish(out) ==
    /\ fn_pc' = IF out.exc = NoExc THEN "returned" ELSE "raised"
    /\ fn_ret' = out.ret
    /\ fn_exc' = out.exc
    /\ fn_calls' = out.calls
    /\ UNCHANGED <<fn, fn_args, fn_world>>
    /\ UNCHANGED notCall

\* the same for a method that changes platform objects: out.world is the
\* platform after it
CallFinishWorld(out) ==
    /\ fn_pc' = IF out.exc = NoExc THEN "returned" ELSE "raised"
    /\ fn_ret' = out.ret
    /\ fn_exc' = out.exc
    /\ fn_calls' = out.calls
    /\ fn_world' = out.world
    /\ UNCHANGED <<fn, fn_args>>
    /\ UNCHANGED notCall

\* a Python list as a returned value
List(s) == [kind |-> "list", value |-> s]

\* most executions found in a project
MaxExecs == 3

\* the states an execution can be described in
ExecStates ==
    {"done", "terminated", "failed", "terminating", "partially_failed", "running"}

\* what dx.find_executions can return: executions with their state
ExecutionLists ==
    SeqsUpTo({[id |-> r, state |-> st] : r \in {job_1, analysis_1}, st \in ExecStates},
             MaxExecs)

\* the local end_states of find_non_terminal_jobs, in each script
end_states(script) ==
    IF script = "run_testing_jobs"
    THEN {"done", "terminated", "failed", "terminating", "partially_failed"}
    ELSE {"done", "terminated", "failed"}

\* [job['id'] for job in executions if state not in end_states]
non_terminal_job_ids(script, executions) ==
    LET NotEnded(job) == job.state \notin end_states(script)
        kept == SelectSeq(executions, NotEnded)
    IN  [k \in 1..Len(kept) |-> kept[k].id]

\* find_non_terminal_jobs of `script`; run_testing_jobs prints the IDs with
\* the name dx.describe gives for each, and the describe numbered fail_at
\* raises (none does when fail_at is 0 or beyond the list)
find_non_terminal_jobs(script, executions, fail_at) ==
    LET ids == non_terminal_job_ids(script, executions)
        fails == fail_at \in 1..Len(ids)
        described == IF fails THEN fail_at ELSE Len(ids)
        header == <<[op |-> "print", arg |-> <<"Running jobs will be terminated:">>]>>
        describes == [k \in 1..described |-> [op |-> "dx.describe", arg |-> ids[k]]]
        listing == <<[op |-> "print", arg |-> ids]>>
    IN  IF script = "run_testing_jobs" /\ ids # <<>>
        THEN IF fails
             THEN [exc |-> [type |-> "DXError", msg |-> msg_oh_no], ret |-> None,
                   calls |-> header \o describes]
             ELSE [exc |-> NoExc, ret |-> List(ids),
                   calls |-> header \o describes \o listing]
        ELSE [exc |-> NoExc, ret |-> List(ids), calls |-> <<>>]

\* find_non_terminal_jobs of one of the two scripts is called
FindNonTerminalStart ==
    /\ fn = "find_non_terminal_jobs"
    /\ fn_args \in [script : {"run_testing_jobs", "check_jobs_complete"},
                     executions : ExecutionLists,
                     fail_at : 0..MaxExecs]
    /\ fn_pc = "call"
    /\ fn_ret = None
    /\ fn_exc = NoExc
    /\ fn_calls = <<>>
    /\ fn_world = <<>>

call_find_non_terminal_jobs ==
    /\ fn_pc = "call"
    /\ fn = "find_non_terminal_jobs"
    /\ CallFinish(find_non_terminal_jobs(fn_args.script, fn_args.executions,
                                         fn_args.fail_at))

NextFindNonTerminal == call_find_non_terminal_jobs

(***************************************************************************)
(* Python values and dicts                                                 *)
(***************************************************************************)

\* Python values held in a dict of job inputs: every value is a record of
\* its kind and its text
Bool(b) == [kind |-> "bool", value |-> IF b THEN <<"True">> ELSE <<"False">>]
Number(digits) == [kind |-> "int", value |-> digits]
\* {'$dnanexus_link': id}
Link(id) == [kind |-> "$dnanexus_link", value |-> id]

\* d.get(key)
Get(d, key) == IF key \in DOMAIN d THEN d[key] ELSE None

\* d[key] = v
SetItem(d, key, v) == [k \in DOMAIN d \cup {key} |-> IF k = key THEN v ELSE d[k]]

\* f"{v}" for a string or None
Format(v) == IF v = None THEN <<"N", "o", "n", "e">> ELSE v.value

\* bool(v) for a string or None
Truthy(v) == v # None /\ v.value # <<>>

\* the positions of ':' in s
Colons(s) == {i \in 1..Len(s) : s[i] = ":"}

(***************************************************************************)
(* run_testing_jobs.py : DXManage.get_project_id_from_batch_job            *)
(* copy_test_data.py   : DXManage.get_details_from_batch_job               *)
(***************************************************************************)

\* the folder given as single_output_dir to the batch job
single_dir == <<"/", "o", "u", "t">>

\* dx.exceptions.DXError and its subclasses
IsDXError(type) == type \in {"DXError", "ResourceNotFound", "DXJobFailureError"}

\* what dx.describe(args.assay_job_id) can do: raise a platform fault,
\* raise something else, or return the job's details (state None: no
\* 'state' key)
DescribeOutcomes ==
    {[exc |-> [type |-> t, msg |-> m], state |-> None] :
        t \in {"DXError", "ResourceNotFound", "ConnectionError"}, m \in PlatformMsgs}
        \cup {[exc |-> NoExc, state |-> st] :
                 st \in {Str(<<"done">>), Str(<<"failed">>), Str(<<"running">>), None}}

\* f"Cannot call dx describe on job ID {job_id} given as prod job:\n {err}"
CannotDescribeMsg(job_id, err) ==
    <<"C", "a", "n", "n", "o", "t", " ", "c", "a", "l", "l", " ", "d",
      "x", " ", "d", "e", "s", "c", "r", "i", "b", "e", " ", "o", "n",
      " ", "j", "o", "b", " ", "I", "D", " ">> \o job_id
        \o <<" ", "g", "i", "v", "e", "n", " ", "a", "s", " ", "p", "r",
             "o", "d", " ", "j", "o", "b", ":", "\n", " ">> \o err

\* the message of the assert on the state, which both scripts start with
\* f"The production job ID given ({job_id}) for the assay ..."
NotDoneMsg(job_id) ==
    <<"T", "h", "e", " ", "p", "r", "o", "d", "u", "c", "t", "i", "o",
      "n", " ", "j", "o", "b", " ", "I", "D", " ", "g", "i", "v", "e",
      "n", " ", "(">> \o job_id
        \o <<")", " ", "f", "o", "r", " ", "t", "h", "e", " ", "a", "s",
             "s", "a", "y", " ", "a", "s", " ", "a", " ", "r", "e", "p",
             "o", "s", "i", "t", "o", "r", "y", " ", "v", "a", "r", "i",
             "a", "b", "l", "e", " ", "d", "i", "d", " ", "n", "o", "t",
             " ", "c", "o", "m", "p", "l", "e", "t", "e", " ", "s", "u",
             "c", "c", "e", "s", "s", "f", "u", "l", "l", "y", ".">>

\* an except clause that lets the platform fault through as it came
describe_batch_job_bare(job_id, out) ==
    IF out.exc # NoExc THEN out.exc
    ELSE IF out.state # Str(<<"done">>) THEN AssertionError(NotDoneMsg(job_id))
    ELSE NoExc

\* the try/except around dx.describe and the assert on the state, the same
\* in both methods: the exception leaving them (NoExc when they go on to
\* the return)
describe_batch_job(job_id, out) ==
    IF out.exc # NoExc
    THEN IF IsDXError(out.exc.type)
         THEN [type |-> "DXError", msg |-> CannotDescribeMsg(job_id, out.exc.msg)]
         ELSE out.exc
    ELSE IF out.state # Str(<<"done">>) THEN AssertionError(NotDoneMsg(job_id))
    ELSE NoExc

\* run_testing_jobs: returns job_details.get('project')
get_project_id_from_batch_job(job_id, out) ==
    LET exc == describe_batch_job(job_id, out)
    IN  [exc |-> exc,
         ret |-> IF exc = NoExc THEN Str(project_1) ELSE None,
         calls |-> <<[op |-> "dx.describe", arg |-> job_id]>>]

\* copy_test_data: returns (project_id, dias_single_folder)
get_details_from_batch_job(job_id, out) ==
    LET exc == describe_batch_job(job_id, out)
    IN  [exc |-> exc,
         ret |-> IF exc = NoExc
                 THEN [kind |-> "tuple", value |-> <<project_1, single_dir>>]
                 ELSE None,
         calls |-> <<[op |-> "dx.describe", arg |-> job_id]>>]

(***************************************************************************)
(* run_testing_jobs.py : DXManage.update_inputs_to_batch_job               *)
(***************************************************************************)

\* args.folder_name, as create_dx_folder names the folder of a run
folder_name_1 == <<"/", "G", "A", "_", "r", "u", "n", "-", "1">>

\* job_details.get('executableName')
eggd_dias_batch == <<"e", "g", "g", "d", "_", "d", "i", "a", "s", "_", "b", "a",
                     "t", "c", "h">>

\* the names of inputs an eggd_dias_batch job can have been run with
InputKeys ==
    {"single_output_dir", "assay_config_file", "multiqc_report", "sample_limit",
     "cnv_call", "cnv_call_job_id", "assay", "snv_reports"}

\* the value the original job had for input k (cnv_call as given)
OriginalValue(k, cnv_call) ==
    CASE k = "single_output_dir" -> Str(single_dir)
      [] k = "assay_config_file" -> Link(file_1)
      [] k = "multiqc_report" -> Link(file_1)
      [] k = "sample_limit" -> Number(<<"9">>)
      [] k = "cnv_call" -> Bool(cnv_call)
      [] k = "cnv_call_job_id" -> Str(job_2)
      [] k = "assay" -> Str(<<"C", "E", "N">>)
      [] OTHER -> Bool(TRUE)

\* what job_details.get('input') can be: any of the inputs present or not
OriginalInputs ==
    {[k \in keys |-> OriginalValue(k, cnv_call)] :
        keys \in SUBSET InputKeys, cnv_call \in BOOLEAN}

\* the multiqc_report argument: project-id:file-id as the lookup returns it,
\* and strings of another form
MultiqcReports ==
    {ProjectFileId([project |-> project_1, id |-> file_2]), file_2,
     <<"a", ":", "b", ":", "c">>}

\* the cnv_job_id argument
CnvJobIds == {None, Str(job_1), Str(<<>>)}

\* `if cnv_job_id:` and the two assignments under it
cnv_reuse(job_inputs, cnv_job_id) ==
    IF Truthy(cnv_job_id)
    THEN SetItem(SetItem(job_inputs, "cnv_call_job_id", cnv_job_id),
                 "cnv_call", Bool(FALSE))
    ELSE job_inputs

\* an update that builds the inputs anew from the keys it sets
replaced_inputs_only(args, job_inputs, updated_config_id, multi_file_id) ==
    SetItem(SetItem(SetItem(SetItem(<<>>,
        "single_output_dir",
            Str(args.folder_name \o Format(Get(job_inputs, "single_output_dir")))),
        "assay_config_file", Link(updated_config_id)),
        "multiqc_report", Link(multi_file_id)),
        "sample_limit", args.test_sample_limit)

\* the four assignments that replace inputs of the original job
replaced_inputs(args, job_inputs, updated_config_id, multi_file_id) ==
    SetItem(SetItem(SetItem(SetItem(job_inputs,
        "single_output_dir",
            Str(args.folder_name \o Format(Get(job_inputs, "single_output_dir")))),
        "assay_config_file", Link(updated_config_id)),
        "multiqc_report", Link(multi_file_id)),
        "sample_limit", args.test_sample_limit)

\* update_inputs_to_batch_job, given args and the 'input' of the described
\* job; `_, multi_file_id = multiqc_report.split(':')` raises ValueError
\* unless the string holds one ':'
update_inputs_to_batch_job(args, input, updated_config_id, multiqc_report, cnv_job_id) ==
    LET describe == <<[op |-> "dx.describe", arg |-> args.assay_job_id]>>
    IN  IF Cardinality(Colons(multiqc_report)) # 1
        THEN [exc |-> [type |-> "ValueError", msg |-> <<>>], ret |-> None,
              calls |-> describe]
        ELSE LET colon == CHOOSE i \in Colons(multiqc_report) : TRUE
                 multi_file_id == SubSeq(multiqc_report, colon + 1,
                                         Len(multiqc_report))
                 job_inputs ==
                     cnv_reuse(replaced_inputs(args, input, updated_config_id,
                                               multi_file_id),
                               cnv_job_id)
             IN  [exc |-> NoExc,
                  ret |-> [kind |-> "tuple",
                           value |-> <<eggd_dias_batch, job_inputs>>],
                  calls |-> describe]

\* update_inputs_to_batch_job is called
UpdateInputsStart ==
    /\ fn = "update_inputs_to_batch_job"
    /\ fn_args \in [args : {[assay_job_id |-> assay_job_id,
                             folder_name |-> folder_name_1,
                             test_sample_limit |-> Number(<<"1">>)]},
                    input : OriginalInputs,
                    updated_config_id : {file_2},
                    multiqc_report : MultiqcReports,
                    cnv_job_id : CnvJobIds]
    /\ fn_pc = "call"
    /\ fn_ret = None
    /\ fn_exc = NoExc
    /\ fn_calls = <<>>
    /\ fn_world = <<>>

call_update_inputs_to_batch_job ==
    /\ fn_pc = "call"
    /\ fn = "update_inputs_to_batch_job"
    /\ CallFinish(update_inputs_to_batch_job(fn_args.args, fn_args.input,
           fn_args.updated_config_id, fn_args.multiqc_report, fn_args.cnv_job_id))

NextUpdateInputs == call_update_inputs_to_batch_job

(***************************************************************************)
(* main() of run_testing_jobs.py and of copy_test_data.py                  *)
(***************************************************************************)

\* most executions in the test project when main starts
MaxProjectExecs == 2

\* the ID the platform gives to the job set_off_test_jobs launches: one no
\* execution has yet
new_job_id == job_2

\* the executions in the test project when main starts: each has its own ID
ProjectExecutionLists ==
    {execs \in SeqsUpTo({[id |-> r, state |-> st] :
                            r \in Refs \ {new_job_id},
                            st \in {"done", "terminating", "running"}},
                        MaxProjectExecs) :
        \A k \in 1..Len(execs), m \in 1..Len(execs) :
            k # m => execs[k].id # execs[m].id}

\* a main that launches the test job before it cleans the project
main_steps_launch_first(script) ==
    IF script = "run_testing_jobs"
    THEN <<"read_in_config", "get_project_id_from_batch_job",
           "set_off_test_jobs",
           "find_all_executions_in_project", "find_non_terminal_jobs",
           "terminate", "find_multiqc_report_in_proj",
           "check_dias_single_version_which_generated_data",
           "get_cnv_calling_job_id", "update_inputs_to_batch_job",
           "write_out_job_id">>
    ELSE IF script = "copy_test_data"
    THEN <<"get_details_from_batch_job", "copy_whole_folder_to_project",
           "find_data_in_original_path",
           "prefix_folders_with_github_actions_folder",
           "move_already_copied_files_to_correct_folder",
           "find_qc_status_file_in_project", "move_or_copy_qc_status_file">>
    ELSE IF script = "check_jobs_complete"
    THEN <<"get_project_from_job_id", "find_all_executions_in_project",
           "find_non_terminal_jobs", "terminate", "get_job_output_details",
           "write_out_original_job_command", "wait_on_done">>
    ELSE <<"get_job_output_details", "write_out_original_job_command",
           "wait_on_done">>

\* the statements of main, in program order
main_steps(script) ==
    IF script = "run_testing_jobs"
    THEN <<"read_in_config", "get_project_id_from_batch_job",
           "find_all_executions_in_project", "find_non_terminal_jobs",
           "terminate", "find_multiqc_report_in_proj",
           "check_dias_single_version_which_generated_data",
           "get_cnv_calling_job_id", "update_inputs_to_batch_job",
           "set_off_test_jobs", "write_out_job_id">>
    ELSE IF script = "copy_test_data"
    THEN <<"get_details_from_batch_job", "copy_whole_folder_to_project",
           "find_data_in_original_path",
           "prefix_folders_with_github_actions_folder",
           "move_already_copied_files_to_correct_folder",
           "find_qc_status_file_in_project", "move_or_copy_qc_status_file">>
    ELSE IF script = "check_jobs_complete"
    THEN <<"get_project_from_job_id", "find_all_executions_in_project",
           "find_non_terminal_jobs", "terminate", "get_job_output_details",
           "write_out_original_job_command", "wait_on_done">>
    ELSE <<"get_job_output_details", "write_out_original_job_command",
           "wait_on_done">>

\* the statement after `step`; main returns after the last one
StepAfter(script, step) ==
    LET steps == main_steps(script)
        k == CHOOSE i \in 1..Len(steps) : steps[i] = step
    IN  IF k = Len(steps) THEN "returned" ELSE steps[k + 1]

\* the steps of main modelled by what they may do to main: return or raise
OpaqueSteps ==
    {"read_in_config", "check_dias_single_version_which_generated_data",
     "copy_whole_folder_to_project", "find_data_in_original_path",
     "prefix_folders_with_github_actions_folder",
     "move_already_copied_files_to_correct_folder",
     "find_qc_status_file_in_project", "move_or_copy_qc_status_file"}

\* no describe of the batch job was made yet
NotDescribed == [exc |-> NoExc, state |-> Str(<<>>)]

\* main's locals before the first statement (described: what the platform
\* answered to the describe of the batch job)
EmptyEnv ==
    [described |-> NotDescribed, project_id |-> None, executions |-> <<>>,
     non_terminal_executions |-> <<>>, multiqc_report |-> None,
     cnv_calling_job_id |-> None, job_inputs |-> <<>>, job_id |-> None,
     out_file |-> None, launched_jobs |-> <<>>]

\* one of the two scripts is started
MainStart ==
    /\ m_script \in {"run_testing_jobs", "copy_test_data"}
    /\ m_args \in [assay : {"CEN", "TWE"}, run_cnv_calling : BOOLEAN]
    /\ m_script = "copy_test_data" =>
          m_args = [assay |-> "CEN", run_cnv_calling |-> FALSE]
    /\ m_pc = main_steps(m_script)[1]
    /\ m_done = <<>>
    /\ m_env = EmptyEnv
    /\ m_exc = NoExc
    /\ m_launched = <<>>
    /\ project_executions \in ProjectExecutionLists
    /\ m_script = "copy_test_data" => project_executions = <<>>

\* neither script runs
MainIdle ==
    /\ m_script = "none"
    /\ m_args = <<>>
    /\ m_pc = "idle"
    /\ m_done = <<>>
    /\ m_env = EmptyEnv
    /\ m_exc = NoExc
    /\ m_launched = <<>>
    /\ project_executions = <<>>

\* the statement `step` has run: it raised exc, which ends main, or it
\* completed and main goes to `next`
MainGo(step, exc, next) ==
    /\ m_done' = Append(m_done, step)
    /\ m_exc' = exc
    /\ m_pc' = IF exc = NoExc THEN next ELSE "raised"
    /\ UNCHANGED <<m_script, m_args>>

\* a statement modelled by its outcome only
main_opaque_step ==
    /\ m_pc \in OpaqueSteps
    /\ \E exc \in {NoExc, [type |-> "DXError", msg |-> msg_oh_no]} :
         MainGo(m_pc, exc, StepAfter(m_script, m_pc))
    /\ UNCHANGED <<m_env, m_launched, project_executions>>
    /\ UNCHANGED notMain

\* project_id = dx_manage.get_project_id_from_batch_job()
\* source_project_id, single_folder = dx_manage.get_details_from_batch_job()
main_get_details_from_batch_job ==
    /\ m_pc \in {"get_project_id_from_batch_job", "get_details_from_batch_job"}
    /\ \E described \in DescribeOutcomes :
         LET out == IF m_script = "run_testing_jobs"
                    THEN get_project_id_from_batch_job(assay_job_id, described)
                    ELSE get_details_from_batch_job(assay_job_id, described)
         IN  /\ MainGo(m_pc, out.exc, StepAfter(m_script, m_pc))
             /\ m_env' = [m_env EXCEPT
                            !.described = described,
                            !.project_id = IF out.exc = NoExc THEN Str(project_1)
                                           ELSE None]
    /\ UNCHANGED <<m_launched, project_executions>>
    /\ UNCHANGED notMain

\* executions = dx_manage.find_all_executions_in_project()
main_find_all_executions_in_project ==
    /\ m_pc = "find_all_executions_in_project"
    /\ \E exc \in {NoExc, [type |-> "DXError", msg |-> msg_oh_no]} :
         /\ MainGo(m_pc, exc, StepAfter(m_script, m_pc))
         /\ m_env' = IF exc = NoExc
                     THEN [m_env EXCEPT !.executions = project_executions]
                     ELSE m_env
    /\ UNCHANGED <<m_launched, project_executions>>
    /\ UNCHANGED notMain

\* non_terminal_executions = dx_manage.find_non_terminal_jobs(executions)
\* and `if non_terminal_executions:`
main_find_non_terminal_jobs ==
    /\ m_pc = "find_non_terminal_jobs"
    /\ \E fail_at \in 0..1 :
         LET out == find_non_terminal_jobs(m_script, m_env.executions, fail_at)
         IN  /\ fail_at = 1 => out.exc # NoExc
             /\ MainGo(m_pc, out.exc,
                       IF out.ret.value # <<>> THEN "terminate"
                       ELSE StepAfter(m_script, "terminate"))
             /\ m_env' = IF out.exc = NoExc
                         THEN [m_env EXCEPT !.non_terminal_executions = out.ret.value]
                         ELSE m_env
    /\ UNCHANGED <<m_launched, project_executions>>
    /\ UNCHANGED notMain

\* dx_manage.terminate(non_terminal_executions): the call
main_terminate_call ==
    /\ m_pc = "terminate"
    /\ t_pc = "idle"
    /\ jobs' = m_env.non_terminal_executions
    /\ t_pc' = "submit"
    /\ m_done' = Append(m_done, "terminate")
    /\ UNCHANGED <<t_futures, t_stdout>>
    /\ UNCHANGED <<m_script, m_args, m_pc, m_env, m_exc, m_launched,
                   project_executions>>
    /\ UNCHANGED notMainTerm

\* dx_manage.terminate(non_terminal_executions): it has returned
main_terminate_return ==
    /\ m_pc = "terminate"
    /\ t_pc = "returned"
    /\ m_pc' = StepAfter(m_script, "terminate")
    /\ UNCHANGED <<m_script, m_args, m_done, m_env, m_exc, m_launched,
                   project_executions>>
    /\ UNCHANGED termVars
    /\ UNCHANGED notMainTerm

\* multiqc_report = dx_manage.find_multiqc_report_in_proj(project_id)
main_find_multiqc_report_in_proj ==
    /\ m_pc = "find_multiqc_report_in_proj"
    /\ \E found \in {f \in FoundFiles : f = <<>> \/ f[1].id = file_1} :
         LET out == find_multiqc_report_in_proj(Format(m_env.project_id), found)
         IN  /\ MainGo(m_pc, out.exc, StepAfter(m_script, m_pc))
             /\ m_env' = [m_env EXCEPT !.multiqc_report = out.ret]
    /\ UNCHANGED <<m_launched, project_executions>>
    /\ UNCHANGED notMain

\* `if args.assay == 'CEN' and not args.run_cnv_calling:`
cnv_lookup_wanted(args) == args.assay = "CEN" /\ ~args.run_cnv_calling

\* cnv_calling_job_id = dx_manage.get_cnv_calling_job_id(), or None
main_get_cnv_calling_job_id ==
    /\ m_pc = "get_cnv_calling_job_id"
    /\ IF cnv_lookup_wanted(m_args)
       THEN \E launched \in {l \in LaunchedLists : Len(l) <= 1} :
              LET out == get_cnv_calling_job_id(launched)
              IN  /\ MainGo(m_pc, out.exc, StepAfter(m_script, m_pc))
                  /\ m_env' = [m_env EXCEPT !.cnv_calling_job_id = out.ret]
       ELSE /\ m_pc' = StepAfter(m_script, m_pc)
            /\ m_env' = [m_env EXCEPT !.cnv_calling_job_id = None]
            /\ UNCHANGED <<m_script, m_args, m_done, m_exc>>
    /\ UNCHANGED <<m_launched, project_executions>>
    /\ UNCHANGED notMain

\* app_name, job_inputs = dx_manage.update_inputs_to_batch_job(...)
main_update_inputs_to_batch_job ==
    /\ m_pc = "update_inputs_to_batch_job"
    /\ \E input \in {i \in OriginalInputs :
                        DOMAIN i \in {{"single_output_dir", "assay"},
                                      {"single_output_dir", "assay", "cnv_call",
                                       "cnv_call_job_id"}}} :
         LET out == update_inputs_to_batch_job(
                        [assay_job_id |-> assay_job_id,
                         folder_name |-> folder_name_1,
                         test_sample_limit |-> Number(<<"1">>)],
                        input, file_2, Format(m_env.multiqc_report),
                        m_env.cnv_calling_job_id)
         IN  /\ MainGo(m_pc, out.exc, StepAfter(m_script, m_pc))
             /\ m_env' = IF out.exc = NoExc
                         THEN [m_env EXCEPT !.job_inputs = out.ret.value[2]]
                         ELSE m_env
    /\ UNCHANGED <<m_launched, project_executions>>
    /\ UNCHANGED notMain

\* job_id = dx_manage.set_off_test_jobs(job_inputs, app_name): DXApp.run
\* launches the job in the test project, then the job is described and
\* tagged; each of the three requests can raise
main_set_off_test_jobs ==
    /\ m_pc = "set_off_test_jobs"
    /\ \E raises \in {"run", "describe", "add_tags", "none"} :
         LET launched == raises # "run"
             exc == IF raises = "none" THEN NoExc
                    ELSE [type |-> "DXError", msg |-> msg_oh_no]
         IN  /\ MainGo(m_pc, exc, StepAfter(m_script, m_pc))
             /\ m_launched' = IF launched THEN Append(m_launched, new_job_id)
                              ELSE m_launched
             /\ project_executions' =
                    IF launched
                    THEN Append(project_executions,
                                [id |-> new_job_id, state |-> "running"])
                    ELSE project_executions
             /\ m_env' = IF exc = NoExc
                         THEN [m_env EXCEPT !.job_id = Str(new_job_id)]
                         ELSE m_env
    /\ UNCHANGED notMain

\* a step that returns with the out file left as it was
main_write_out_nothing ==
    /\ m_pc = "write_out_job_id"
    /\ MainGo(m_pc, NoExc, StepAfter(m_script, m_pc))
    /\ UNCHANGED <<m_env, m_launched, project_executions>>
    /\ UNCHANGED notMain

\* dx_manage.write_out_job_id(job_id, args.out_file): open() can fail, and
\* then nothing is written
main_write_out_job_id ==
    /\ m_pc = "write_out_job_id"
    /\ \E exc \in {NoExc, [type |-> "OSError", msg |-> msg_oh_no]} :
         /\ MainGo(m_pc, exc, StepAfter(m_script, m_pc))
         /\ m_env' = IF exc = NoExc
                     THEN [m_env EXCEPT !.out_file = m_env.job_id]
                     ELSE m_env
    /\ UNCHANGED <<m_launched, project_executions>>
    /\ UNCHANGED notMain

NextMain ==
    \/ main_opaque_step
    \/ main_get_details_from_batch_job
    \/ main_find_all_executions_in_project
    \/ main_find_non_terminal_jobs
    \/ main_terminate_call
    \/ terminate_submit
    \/ terminate_submitted
    \/ terminate_worker_start
    \/ terminate_one
    \/ terminate_result
    \/ terminate_return
    \/ main_terminate_return
    \/ main_find_multiqc_report_in_proj
    \/ main_get_cnv_calling_job_id
    \/ main_update_inputs_to_batch_job
    \/ main_set_off_test_jobs
    \/ main_write_out_job_id

(***************************************************************************)
(* get_or_create_testing_project.py : DXManage.find_dx_test_project,       *)
(*     DXManage.get_or_create_dx_project, DXManage.create_dx_folder        *)
(***************************************************************************)

\* most projects a search for the test project returns
MaxProjects == 3

Digits == <<"0", "1", "2", "3", "4", "5", "6", "7", "8", "9">>

\* strftime's %y, %m, %d: a number below 100 as two digits
TwoDigits(n) == <<Digits[(n \div 10) + 1], Digits[(n % 10) + 1]>>

\* datetime.now().strftime('%y%m%d')
YYMMDD(date) ==
    TwoDigits(date.year % 100) \o TwoDigits(date.month) \o TwoDigits(date.day)

\* the days main can run on
Dates == [year : {2009, 2024}, month : {1, 12}, day : {5, 31}]

dot_json == <<".", "j", "s", "o", "n">>

RECURSIVE RemoveAll(_, _)
\* s.replace(sub, ''): every occurrence of sub removed, from the left
RemoveAll(s, sub) ==
    IF Len(s) < Len(sub) THEN s
    ELSE IF SubSeq(s, 1, Len(sub)) = sub
    THEN RemoveAll(SubSeq(s, Len(sub) + 1, Len(s)), sub)
    ELSE <<Head(s)>> \o RemoveAll(Tail(s), sub)

\* args.input_config: a config file name, with .json at its end, without,
\* and with a second .json inside
InputConfigs ==
    {<<"c", "f", "g">> \o dot_json, <<"c", "f", "g">>,
     <<"c">> \o dot_json \o <<"f">> \o dot_json}

\* the project number k on the platform, as a search describes it
Project(k) ==
    [id |-> <<"p", "r", "o", "j", "e", "c", "t", "-">> \o <<Digits[k + 1]>>,
     name |-> <<"0", "0", "4", "_">> \o <<Digits[k + 1]>>]

\* what dx.find_projects can return: some projects, each once
ProjectLists ==
    {projs \in SeqsUpTo({Project(k) : k \in 1..MaxProjects}, MaxProjects) :
        \A k \in 1..Len(projs), m \in 1..Len(projs) : k # m => projs[k] # projs[m]}

\* the ID the platform gives to a project that DXProject().new creates
new_project_id == <<"p", "r", "o", "j", "e", "c", "t", "-", "0">>

\* "\n\t".join(f"{proj['id']}: {proj['describe']['name']}" ...)
RECURSIVE ProjectInfo(_)
ProjectInfo(projs) ==
    IF projs = <<>> THEN <<>>
    ELSE projs[1].id \o <<":", " ">> \o projs[1].name
             \o (IF Len(projs) > 1 THEN <<"\n", "\t">> ELSE <<>>)
             \o ProjectInfo(Tail(projs))

\* the message of the assert in find_dx_test_project
MultipleProjectsMsg(projs) ==
    <<"F", "o", "u", "n", "d", " ", "m", "u", "l", "t", "i", "p", "l",
      "e", " ", "e", "x", "i", "s", "t", "i", "n", "g", " ", "0", "0",
      "4", " ", "t", "e", "s", "t", "i", "n", "g", " ", "p", "r", "o",
      "j", "e", "c", "t", "s", " ", "f", "o", "r", " ", "t", "h", "e",
      " ", "u", "p", "d", "a", "t", "e", "d", " ", "c", "o", "n", "f",
      "i", "g", " ", "f", "i", "l", "e", ":", " ", "\n", "	">>
        \o ProjectInfo(projs)
        \o <<"\n", ".", " ", "P", "l", "e", "a", "s", "e", " ", "e", "i",
             "t", "h", "e", "r", " ", "r", "e", "n", "a", "m", "e", " ",
             "o", "r", " ", "d", "e", "l", "e", "t", "e", " ", "p", "r",
             "o", "j", "e", "c", "t", "s", " ", "s", "o", " ", "a", " ",
             "m", "a", "x", "i", "m", "u", "m", " ", "o", "f", " ", "o",
             "n", "e", " ", "r", "e", "m", "a", "i", "n", "s">>

\* a search that hands back what it found, however many
find_dx_test_project_unchecked(args, fault, found) ==
    LET search == <<[op |-> "dx.find_projects",
                     arg |-> RemoveAll(args.input_config, dot_json)]>>
    IN  IF fault # NoExc
        THEN [exc |-> fault, ret |-> None, calls |-> search]
        ELSE [exc |-> NoExc, ret |-> List(found), calls |-> search]

\* find_dx_test_project: the search raises `fault` or returns `found`
find_dx_test_project(args, fault, found) ==
    LET search == <<[op |-> "dx.find_projects",
                     arg |-> RemoveAll(args.input_config, dot_json)]>>
    IN  IF fault # NoExc
        THEN [exc |-> fault, ret |-> None, calls |-> search]
        ELSE IF found # <<>> /\ Len(found) # 1
        THEN [exc |-> AssertionError(MultipleProjectsMsg(found)), ret |-> None,
              calls |-> search]
        ELSE [exc |-> NoExc, ret |-> List(found), calls |-> search]

\* f"004_{datetime.now().strftime('%y%m%d')}_GitHub_Actions_"
\* f"{changed_config_name}_testing"
new_project_name(date, changed_config_name) ==
    <<"0", "0", "4", "_">> \o YYMMDD(date)
        \o <<"_", "G", "i", "t", "H", "u", "b", "_", "A", "c", "t", "i", "o",
             "n", "s", "_">>
        \o changed_config_name \o <<"_", "t", "e", "s", "t", "i", "n", "g">>

\* the one invite made for a new project
Invite(project_id) ==
    [op |-> "DXProject.invite",
     arg |-> [project |-> project_id, user |-> "org-emee_1",
              level |-> "CONTRIBUTE", send_email |-> FALSE]]

\* a method that makes a new project whatever it is given
get_or_create_always(args, date, existing_projects, world, new_fault, invite_fault) ==
    LET name == new_project_name(date, RemoveAll(args.input_config, dot_json))
        new == [op |-> "DXProject.new", arg |-> name]
        created == [world EXCEPT
                       !.projects = Append(@, [id |-> new_project_id, name |-> name])]
    IN  [exc |-> NoExc, ret |-> Str(new_project_id),
         calls |-> <<new, Invite(new_project_id)>>,
         world |-> [created EXCEPT !.invites = Append(@, Invite(new_project_id).arg)]]

\* get_or_create_dx_project run on the day `date`: DXProject().new and
\* invite raise new_fault and invite_fault (NoExc: they succeed)
get_or_create_dx_project(args, date, existing_projects, world, new_fault, invite_fault) ==
    LET name == new_project_name(date, RemoveAll(args.input_config, dot_json))
        new == [op |-> "DXProject.new", arg |-> name]
        created == [world EXCEPT
                       !.projects = Append(@, [id |-> new_project_id, name |-> name])]
        printed(text) == [op |-> "print", arg |-> text]
    IN  IF existing_projects = <<>>
        THEN IF new_fault # NoExc
             THEN [exc |-> new_fault, ret |-> None, calls |-> <<new>>,
                   world |-> world]
             ELSE IF invite_fault # NoExc
             THEN [exc |-> invite_fault, ret |-> None,
                   calls |-> <<new, printed("Created new project for testing"),
                               Invite(new_project_id)>>,
                   world |-> created]
             ELSE [exc |-> NoExc, ret |-> Str(new_project_id),
                   calls |-> <<new, printed("Created new project for testing"),
                               Invite(new_project_id), printed("Granted privilege")>>,
                   world |-> [created EXCEPT
                                 !.invites = Append(@, Invite(new_project_id).arg)]]
        ELSE [exc |-> NoExc, ret |-> Str(existing_projects[1].id),
              calls |-> <<printed("Project for testing already exists")>>,
              world |-> world]

\* f"/GitHub_Actions_run-{self.args.run_id}_{timestamp}"
run_folder_name(run_id, timestamp) ==
    <<"/", "G", "i", "t", "H", "u", "b", "_", "A", "c", "t", "i", "o", "n", "s",
      "_", "r", "u", "n", "-">> \o run_id \o <<"_">> \o timestamp

\* a method that makes the folder without looking for it first
create_dx_folder_always(args, test_project_id, timestamp, world, list_fault, new_fault) ==
    LET folder_name == run_folder_name(args.run_id, timestamp)
    IN  [exc |-> NoExc, ret |-> Str(folder_name),
         calls |-> <<[op |-> "dx.api.project_new_folder",
                      arg |-> [folder |-> folder_name, parents |-> TRUE]]>>,
         world |-> [world EXCEPT !.folders = @ \cup {folder_name}]]

\* create_dx_folder: project_list_folder raises list_fault, or else
\* ResourceNotFound when the project has no such folder; project_new_folder
\* raises new_fault (NoExc: the requests succeed)
create_dx_folder(args, test_project_id, timestamp, world, list_fault, new_fault) ==
    LET folder_name == run_folder_name(args.run_id, timestamp)
        list == [op |-> "dx.api.project_list_folder",
                 arg |-> [folder |-> folder_name, parents |-> FALSE]]
        new == [op |-> "dx.api.project_new_folder",
                arg |-> [folder |-> folder_name, parents |-> TRUE]]
        printed == [op |-> "print", arg |-> [folder |-> folder_name, parents |-> FALSE]]
    IN  IF list_fault # NoExc
        THEN [exc |-> list_fault, ret |-> None, calls |-> <<list>>, world |-> world]
        ELSE IF folder_name \in world.folders
        THEN [exc |-> NoExc, ret |-> Str(folder_name), calls |-> <<list>>,
              world |-> world]
        ELSE IF new_fault # NoExc
        THEN [exc |-> new_fault, ret |-> None, calls |-> <<list, new>>,
              world |-> world]
        ELSE [exc |-> NoExc, ret |-> Str(folder_name),
              calls |-> <<list, new, printed>>,
              world |-> [world EXCEPT !.folders = @ \cup {folder_name}]]

\* the faults a request to the platform can end in (NoExc: none)
Faults == {NoExc, [type |-> "DXError", msg |-> msg_oh_no]}

\* args.run_id and the time stamps main can pass
RunIds == {<<"1">>, <<"2", "3">>}
TimeStamps == {<<"2", "4", "0", "8", "2", "2", "_", "1", "0", "0", "6">>}

\* the folders a test project can hold before the call
FolderSets ==
    SUBSET ({run_folder_name(r, t) : r \in RunIds, t \in TimeStamps}
                \cup {<<"/", "o", "u", "t">>})

\* one of the three methods is called
ProjectStart ==
    /\ \/ /\ fn = "find_dx_test_project"
          /\ fn_args \in [args : [input_config : InputConfigs],
                          fault : Faults, found : ProjectLists]
          /\ fn_world = [projects |-> fn_args.found, invites |-> <<>>, folders |-> {}]
       \/ /\ fn = "get_or_create_dx_project"
          /\ fn_args \in [args : [input_config : InputConfigs], date : Dates,
                          existing_projects : {ps \in ProjectLists : Len(ps) <= 2},
                          new_fault : Faults, invite_fault : Faults]
          /\ fn_world = [projects |-> fn_args.existing_projects, invites |-> <<>>,
                         folders |-> {}]
       \/ /\ fn = "create_dx_folder"
          /\ fn_args \in [args : [run_id : RunIds], test_project_id : {project_1},
                          timestamp : TimeStamps, folders : FolderSets,
                          list_fault : Faults, new_fault : Faults]
          /\ fn_world = [projects |-> <<Project(1)>>, invites |-> <<>>,
                         folders |-> fn_args.folders]
    /\ fn_pc = "call"
    /\ fn_ret = None
    /\ fn_exc = NoExc
    /\ fn_calls = <<>>

call_find_dx_test_project ==
    /\ fn_pc = "call"
    /\ fn = "find_dx_test_project"
    /\ CallFinish(find_dx_test_project(fn_args.args, fn_args.fault, fn_args.found))

call_get_or_create_dx_project ==
    /\ fn_pc = "call"
    /\ fn = "get_or_create_dx_project"
    /\ CallFinishWorld(get_or_create_dx_project(fn_args.args, fn_args.date,
           fn_args.existing_projects, fn_world, fn_args.new_fault,
           fn_args.invite_fault))

call_create_dx_folder ==
    /\ fn_pc = "call"
    /\ fn = "create_dx_folder"
    /\ CallFinishWorld(create_dx_folder(fn_args.args, fn_args.test_project_id,
           fn_args.timestamp, fn_world, fn_args.list_fault, fn_args.new_fault))

NextProject ==
    \/ call_find_dx_test_project
    \/ call_get_or_create_dx_project
    \/ call_create_dx_folder

(***************************************************************************)
(* copy_test_data.py : DXManage.prefix_folders_with_github_actions_folder  *)
(***************************************************************************)

\* most files found in the Dias single folder of the 002 project
MaxFiles == 3

\* the n-th file ID
FileId(n) == <<"f", "i", "l", "e", "-">> \o <<Digits[n + 1]>>

\* folders a file of the 002 project can be in
OriginalFolders ==
    {<<"/", "o", "u", "t", "p", "u", "t", "/", "a">>, <<"/">>}

\* names main can pass for the run's folder, one of them ending in a slash
GaFolderNames == {<<"/", "G", "A", "-", "1">>, <<"/", "G", "A", "-", "1", "/">>}

\* what the search of the 002 project can return: some files, each once
SourceFileLists ==
    {files \in SeqsUpTo([id : {FileId(n) : n \in 1..MaxFiles},
                         describe : [folder : OriginalFolders]], MaxFiles) :
        \A k \in 1..Len(files), m \in 1..Len(files) :
            k # m => files[k].id # files[m].id}

\* the IDs that can already be in the test project, one of them of no
\* file of the 002 project
ExistingFileSets == SUBSET ({FileId(n) : n \in 1..MaxFiles} \cup {FileId(0)})

RECURSIVE SelectFiles(_, _)
\* [file for file in files if file['id'] in existing_files]
SelectFiles(files, existing_files) ==
    IF files = <<>> THEN <<>>
    ELSE (IF files[1].id \in existing_files THEN <<files[1]>> ELSE <<>>)
             \o SelectFiles(Tail(files), existing_files)

\* a method that moves every file of the 002 project
prefix_folders_of_every_file(files_in_002_project, existing_files, ga_folder_name) ==
    [k \in 1..Len(files_in_002_project) |->
        <<files_in_002_project[k].id,
          ga_folder_name \o files_in_002_project[k].describe.folder>>]

prefix_folders_with_github_actions_folder(files_in_002_project, existing_files, ga_folder_name) ==
    LET existing_file_details == SelectFiles(files_in_002_project, existing_files)
        modified_folders ==
            [k \in 1..Len(existing_file_details) |->
                [existing_file_details[k] EXCEPT
                    !.describe.folder = ga_folder_name \o @]]
    IN  [k \in 1..Len(modified_folders) |->
            <<modified_folders[k].id, modified_folders[k].describe.folder>>]

PrefixFoldersStart ==
    /\ fn = "prefix_folders_with_github_actions_folder"
    /\ fn_args \in [files_in_002_project : SourceFileLists,
                    existing_files : ExistingFileSets,
                    ga_folder_name : GaFolderNames]
    /\ fn_pc = "call"
    /\ fn_ret = None
    /\ fn_exc = NoExc
    /\ fn_calls = <<>>
    /\ fn_world = <<>>

call_prefix_folders_with_github_actions_folder ==
    /\ fn_pc = "call"
    /\ fn = "prefix_folders_with_github_actions_folder"
    /\ CallFinish([exc |-> NoExc, calls |-> <<>>,
                   ret |-> List(prefix_folders_with_github_actions_folder(
                               fn_args.files_in_002_project,
                               fn_args.existing_files, fn_args.ga_folder_name))])

NextPrefixFolders == call_prefix_folders_with_github_actions_folder

(***************************************************************************)
(* copy_test_data.py : DXManage.find_data_in_original_path                 *)
(***************************************************************************)

\* the Dias single paths main can search
SinglePaths ==
    {<<"/", "o", "u", "t", "p", "u", "t", "/", "a">>,
     <<"/", "o", "u", "t", "p", "u", "t", "/", "a", "/">>}

\* find_data_in_original_path: the search raises `fault` or returns `found`,
\* which is handed back as it is
find_data_in_original_path(project_id, folder_name, fault, found) ==
    LET search == <<[op |-> "dx.find_data_objects",
                     arg |-> [project |-> project_id, folder |-> folder_name]]>>
    IN  IF fault # NoExc
        THEN [exc |-> fault, ret |-> None, calls |-> search]
        ELSE [exc |-> NoExc, ret |-> List(found), calls |-> search]

FindDataStart ==
    /\ fn = "find_data_in_original_path"
    /\ fn_args \in [project_id : {project_1}, folder_name : SinglePaths,
                    fault : Faults, found : SourceFileLists]
    /\ fn_pc = "call"
    /\ fn_ret = None
    /\ fn_exc = NoExc
    /\ fn_calls = <<>>
    /\ fn_world = <<>>

call_find_data_in_original_path ==
    /\ fn_pc = "call"
    /\ fn = "find_data_in_original_path"
    /\ CallFinish(find_data_in_original_path(fn_args.project_id,
           fn_args.folder_name, fn_args.fault, fn_args.found))

NextFindData == call_find_data_in_original_path

(***************************************************************************)
(* get_production_config.py : DXManage.get_json_configs_in_DNAnexus        *)
(***************************************************************************)

\* [\d\w]
WordChars ==
    {"a", "b", "c", "d", "e", "f", "g", "h", "i", "j", "k", "l", "m", "n", "o",
     "p", "q", "r", "s", "t", "u", "v", "w", "x", "y", "z", "_"}
        \cup {Digits[n] : n \in 1..10}

\* re.match(r'project-[\d\w]*:/.*', config_path): a match at the start
MatchesProjectPath(config_path) ==
    /\ StartsWith(config_path, <<"p", "r", "o", "j", "e", "c", "t", "-">>)
    /\ \E k \in 9..(Len(config_path) - 1) :
          /\ \A n \in 9..(k - 1) : config_path[n] \in WordChars
          /\ config_path[k] = ":"
          /\ config_path[k + 1] = "/"

RECURSIVE Split(_, _)
\* s.split(sep) for a separator of one character
Split(s, sep) ==
    IF \A n \in 1..Len(s) : s[n] # sep THEN <<s>>
    ELSE LET k == CHOOSE n \in 1..Len(s) :
                      s[n] = sep /\ \A m \in 1..(n - 1) : s[m] # sep
         IN  <<SubSeq(s, 1, k - 1)>> \o Split(SubSeq(s, k + 1, Len(s)), sep)

\* values of the config_path argument
ConfigPaths ==
    {<<"p", "r", "o", "j", "e", "c", "t", "-", "1", ":", "/", "c">>,
     <<"p", "r", "o", "j", "e", "c", "t", "-", "1", ":", "/", "c", ":", "d">>,
     <<"p", "r", "o", "j", "e", "c", "t", "-", "1", "/", "c">>,
     <<"x", "p", "r", "o", "j", "e", "c", "t", "-", "1", ":", "/", "c">>,
     <<"p", "r", "o", "j", "e", "c", "t", "-", ":", "/">>}

InvalidPathMsg(config_path) ==
    <<"P", "a", "t", "h", " ", "t", "o", " ", "a", "s", "s", "a", "y",
      " ", "c", "o", "n", "f", "i", "g", "s", " ", "a", "p", "p", "e",
      "a", "r", "s", " ", "i", "n", "v", "a", "l", "i", "d", ":", " ">> \o config_path

NoConfigFilesMsg(project, path) ==
    <<"N", "o", " ", "c", "o", "n", "f", "i", "g", " ", "f", "i", "l",
      "e", "s", " ", "f", "o", "u", "n", "d", " ", "i", "n", " ", "g",
      "i", "v", "e", "n", " ", "p", "a", "t", "h", ":", " ">>
        \o project \o <<":">> \o path

\* str() of an exception made from None, the value print() returns
msg_None == <<"N", "o", "n", "e">>

\* get_json_configs_in_DNAnexus: the search raises `fault` or returns `found`
get_json_configs_in_DNAnexus(config_path, fault, found) ==
    LET parts == Split(config_path, ":")
        searching == [op |-> "print", arg |-> config_path]
        search == [op |-> "dx.find_data_objects",
                   arg |-> IF Len(parts) = 2 THEN parts ELSE <<>>]
    IN  IF ~ MatchesProjectPath(config_path)
        THEN [exc |-> AssertionError(InvalidPathMsg(config_path)), ret |-> None,
              calls |-> <<>>]
        ELSE IF Len(parts) # 2
        THEN [exc |-> [type |-> "ValueError", msg |-> <<>>], ret |-> None,
              calls |-> <<searching>>]
        ELSE IF fault # NoExc
        THEN [exc |-> fault, ret |-> None, calls |-> <<searching, search>>]
        ELSE IF found = <<>>
        \* assert config_files, print(...): the text is printed, and the
        \* message of the exception is what print returns
        THEN [exc |-> AssertionError(msg_None), ret |-> None,
              calls |-> <<searching, search,
                          [op |-> "print",
                           arg |-> NoConfigFilesMsg(parts[1], parts[2])]>>]
        ELSE [exc |-> NoExc, ret |-> List(found),
              calls |-> <<searching, search,
                          [op |-> "print", arg |-> <<"f", "o", "u", "n", "d">>]>>]

GetJsonConfigsStart ==
    /\ fn = "get_json_configs_in_DNAnexus"
    /\ fn_args \in [config_path : ConfigPaths, fault : Faults, found : FoundFiles]
    /\ fn_pc = "call"
    /\ fn_ret = None
    /\ fn_exc = NoExc
    /\ fn_calls = <<>>
    /\ fn_world = <<>>

call_get_json_configs_in_DNAnexus ==
    /\ fn_pc = "call"
    /\ fn = "get_json_configs_in_DNAnexus"
    /\ CallFinish(get_json_configs_in_DNAnexus(fn_args.config_path,
           fn_args.fault, fn_args.found))

NextGetJsonConfigs == call_get_json_configs_in_DNAnexus

(***************************************************************************)
(* check_jobs_complete.py : main, in its two versions                      *)
(*   "check_jobs_complete"          : the script at the repository root,   *)
(*                                    which cleans the project first       *)
(*   "check_jobs_complete_workflow" : the script under .github/workflows   *)
(***************************************************************************)

RECURSIVE Join(_, _)
\* sep.join(parts)
Join(parts, sep) ==
    IF parts = <<>> THEN <<>>
    ELSE IF Len(parts) = 1 THEN parts[1]
    ELSE parts[1] \o sep \o Join(Tail(parts), sep)

\* the launched_jobs output of the eggd_dias_batch job: references joined
\* with commas
LaunchedJobsOutputs ==
    {Join(refs, <<",">>) : refs \in SeqsUpTo({job_1, analysis_1}, 2) \ {<<>>}}

\* the test project when the script at the root starts: the job given as
\* --job_id is one of its executions, beside what earlier runs left
CheckExecutionLists ==
    {before \o <<[id |-> new_job_id, state |-> st]>> \o after :
        st \in {"running", "done", "failed"},
        before \in {<<>>, <<[id |-> job_1, state |-> "running"]>>},
        after \in {<<>>, <<[id |-> analysis_1, state |-> "done"]>>,
                   <<[id |-> analysis_1, state |-> "running"]>>}}

\* the job given as --job_id has been sent a terminate request that the
\* platform accepted
JobTerminated(job_id) ==
    \E i \in 1..Len(t_futures) :
        /\ t_futures[i].dxid = job_id
        /\ t_futures[i].state = "finished"
        /\ t_futures[i].exc = NoExc

\* one of the two scripts is started with --job_id new_job_id
CheckMainStart ==
    /\ m_script \in {"check_jobs_complete", "check_jobs_complete_workflow"}
    /\ m_args = [job_id |-> new_job_id]
    /\ m_pc = main_steps(m_script)[1]
    /\ m_done = <<>>
    /\ m_env = EmptyEnv
    /\ m_exc = NoExc
    /\ m_launched = <<>>
    /\ project_executions \in CheckExecutionLists

\* original_proj = dx_manage.get_project_from_job_id()
main_get_project_from_job_id ==
    /\ m_pc = "get_project_from_job_id"
    /\ \E exc \in Faults :
         /\ MainGo(m_pc, exc, StepAfter(m_script, m_pc))
         /\ m_env' = IF exc = NoExc
                     THEN [m_env EXCEPT !.project_id = Str(project_1)]
                     ELSE m_env
    /\ UNCHANGED <<m_launched, project_executions>>
    /\ UNCHANGED notMain

\* get_job_output_details: dx.DXJob(dxid=self.args.job_id).wait_on_done().
\* A job the platform has terminated does not get done.
main_wait_on_parent ==
    /\ m_pc = "get_job_output_details"
    /\ \E out \in {NoExc, [type |-> "DXJobFailureError", msg |-> msg_oh_no]} :
         /\ JobTerminated(m_args.job_id) => out # NoExc
         /\ m_done' = Append(m_done, "DXJob.wait_on_done")
         /\ m_exc' = out
         /\ m_pc' = IF out = NoExc THEN "get_job_output_details: describe"
                    ELSE "raised"
    /\ UNCHANGED <<m_script, m_args, m_env, m_launched, project_executions>>
    /\ UNCHANGED notMain

\* get_job_output_details: the describe of the job, and the split of its
\* launched_jobs output
main_describe_parent ==
    /\ m_pc = "get_job_output_details: describe"
    /\ \E exc \in Faults, output \in LaunchedJobsOutputs :
         /\ m_done' = Append(m_done, "DXJob.describe")
         /\ m_exc' = exc
         /\ m_pc' = IF exc = NoExc
                    THEN StepAfter(m_script, "get_job_output_details")
                    ELSE "raised"
         /\ m_env' = IF exc = NoExc
                     THEN [m_env EXCEPT
                              !.job_inputs = [launched_jobs |-> output],
                              !.launched_jobs = Split(output, ",")]
                     ELSE m_env
    /\ UNCHANGED <<m_script, m_args, m_launched, project_executions>>
    /\ UNCHANGED notMain

\* a main that leaves the replay command unwritten
main_skip_original_job_command ==
    /\ m_pc = "write_out_original_job_command"
    /\ MainGo(m_pc, NoExc, StepAfter(m_script, m_pc))
    /\ UNCHANGED <<m_env, m_launched, project_executions>>
    /\ UNCHANGED notMain

\* dx_manage.write_out_original_job_command(job_inputs, args.outfile_name):
\* open() can fail, and then nothing is written
main_write_out_original_job_command ==
    /\ m_pc = "write_out_original_job_command"
    /\ \E exc \in {NoExc, [type |-> "OSError", msg |-> msg_oh_no]} :
         /\ MainGo(m_pc, exc, StepAfter(m_script, m_pc))
         /\ m_env' = IF exc = NoExc
                     THEN [m_env EXCEPT !.out_file = Str(<<"d", "x", " ", "r", "u", "n">>)]
                     ELSE m_env
    /\ UNCHANGED <<m_launched, project_executions>>
    /\ UNCHANGED notMain

\* dx_manage.wait_on_done(launched_jobs): the call
main_wait_on_done_call ==
    /\ m_pc = "wait_on_done"
    /\ w_pc = "idle"
    /\ all_job_ids' = m_env.launched_jobs
    /\ w_pc' = "enter"
    /\ m_done' = Append(m_done, "wait_on_done")
    /\ UNCHANGED <<w_idx, w_calls, w_raised, w_stdout>>
    /\ UNCHANGED <<m_script, m_args, m_pc, m_env, m_exc, m_launched,
                   project_executions>>
    /\ UNCHANGED notMainWait

\* dx_manage.wait_on_done(launched_jobs): it has returned or raised
main_wait_on_done_return ==
    /\ m_pc = "wait_on_done"
    /\ w_pc \in {"returned", "raised"}
    /\ m_pc' = w_pc
    /\ m_exc' = w_raised
    /\ UNCHANGED <<m_script, m_args, m_done, m_env, m_launched,
                   project_executions>>
    /\ UNCHANGED waitVars
    /\ UNCHANGED notMainWait

NextCheckMain ==
    \/ main_get_project_from_job_id
    \/ main_find_all_executions_in_project
    \/ main_find_non_terminal_jobs
    \/ main_terminate_call
    \/ terminate_submit
    \/ terminate_submitted
    \/ terminate_worker_start
    \/ terminate_one
    \/ terminate_result
    \/ terminate_return
    \/ main_terminate_return
    \/ main_wait_on_parent
    \/ main_describe_parent
    \/ main_write_out_original_job_command
    \/ main_wait_on_done_call
    \/ wait_on_done_enter
    \/ wait_on_done_step
    \/ wait_on_done_return
    \/ main_wait_on_done_return

(***************************************************************************)
(* Invocations of the script that gets or creates the test project, in     *)
(* its three versions:                                                     *)
(*   "workflows/get_or_create_testing_project" (.github/workflows)         *)
(*   "get_or_create_testing_project", "get_or_create_project" (root)       *)
(***************************************************************************)

\* most invocations of the script
MaxInvocations == 3

InvScripts ==
    {"workflows/get_or_create_testing_project", "get_or_create_testing_project",
     "get_or_create_project"}

\* a pattern of plain characters and '.', which stands for any character,
\* matched against a string of its length
MatchesChars(pattern, str) ==
    /\ Len(pattern) = Len(str)
    /\ \A n \in 1..Len(pattern) : pattern[n] = "." \/ pattern[n] = str[n]

GitHub_Actions_ ==
    <<"G", "i", "t", "H", "u", "b", "_", "A", "c", "t", "i", "o", "n", "s", "_">>

\* what the search pattern of a script has between the date and the name
\* of the config
SearchInfix(script) ==
    IF script = "workflows/get_or_create_testing_project" THEN GitHub_Actions_
    ELSE <<>>

\* name_mode='regexp' with '^004_[\d]{2}[\d]{2}[\d]{2}_<infix><config>.*$'
MatchesSearch(script, changed_config_name, name) ==
    LET from == 11 + Len(SearchInfix(script))
    IN  /\ Len(name) >= from + Len(changed_config_name)
        /\ SubSeq(name, 1, 4) = <<"0", "0", "4", "_">>
        /\ \A n \in 5..10 : \E d \in 1..10 : name[n] = Digits[d]
        /\ name[11] = "_"
        /\ SubSeq(name, 12, from) = SearchInfix(script)
        /\ MatchesChars(changed_config_name,
                        SubSeq(name, from + 1, from + Len(changed_config_name)))

\* a search that finds every project of the config whatever comes before
\* its name
MatchesAnyPrefix(script, changed_config_name, name) ==
    \E from \in 1..Len(name) :
        /\ from + Len(changed_config_name) <= Len(name) + 1
        /\ MatchesChars(changed_config_name,
                        SubSeq(name, from, from + Len(changed_config_name) - 1))

RECURSIVE FindProjects(_, _, _)
\* list(dx.find_projects(name=..., name_mode='regexp', ...))
FindProjects(script, changed_config_name, projects) ==
    IF projects = <<>> THEN <<>>
    ELSE (IF MatchesSearch(script, changed_config_name, projects[1].name)
          THEN <<projects[1]>> ELSE <<>>)
             \o FindProjects(script, changed_config_name, Tail(projects))

\* the name a script gives to the project it creates
CreatedName(script, date, changed_config_name) ==
    IF script = "get_or_create_project"
    THEN <<"0", "0", "3">>
             \o Tail(Tail(Tail(new_project_name(date, changed_config_name))))
    ELSE new_project_name(date, changed_config_name)

\* the ID the platform gives to its n-th project
CloudProjectId(n) ==
    <<"p", "r", "o", "j", "e", "c", "t", "-">> \o <<Digits[n + 1]>>

\* the projects on the platform before the first invocation: none, or one
\* of another config
CloudsAtStart ==
    {<<>>,
     <<[id |-> CloudProjectId(1),
        name |-> new_project_name([year |-> 2024, month |-> 1, day |-> 5],
                                  <<"o", "t", "h", "e", "r">>)]>>}

InvFresh == [pc |-> "find", existing |-> <<>>, project_id |-> None,
             created |-> FALSE, exc |-> NoExc]

\* some invocations of one script for one config are requested
InvStart ==
    /\ inv_script \in InvScripts
    /\ inv_args \in [input_config : {<<"c", "f", "g">> \o dot_json,
                                     <<"v", "1", ".", "2">> \o dot_json}]
    /\ inv_concurrent \in BOOLEAN
    /\ inv = [i \in 1..MaxInvocations |-> InvFresh]
    /\ cloud_projects \in CloudsAtStart

\* no script is invoked
InvIdle ==
    /\ inv_script = "none"
    /\ inv_args = <<>>
    /\ inv_concurrent = FALSE
    /\ inv = <<>>
    /\ cloud_projects = <<>>

\* an invocation ends before the next one starts, unless they may overlap
MayRun(i) ==
    inv_concurrent \/ \A k \in 1..(i - 1) : inv[k].pc \in {"done", "raised"}

\* find_dx_test_project / find_dx_project: the search and the assert
inv_find_dx_test_project(i) ==
    /\ inv[i].pc = "find"
    /\ MayRun(i)
    /\ LET existing_projects ==
               FindProjects(inv_script,
                            RemoveAll(inv_args.input_config, dot_json),
                            cloud_projects)
       IN  inv' = [inv EXCEPT
                      ![i].existing = existing_projects,
                      ![i].pc = IF Len(existing_projects) > 1 THEN "raised"
                                ELSE "get_or_create",
                      ![i].exc = IF Len(existing_projects) > 1
                                 THEN AssertionError(
                                          MultipleProjectsMsg(existing_projects))
                                 ELSE NoExc]
    /\ UNCHANGED <<inv_script, inv_args, inv_concurrent, cloud_projects>>
    /\ UNCHANGED notInv

\* get_or_create_dx_project with what the search returned
inv_get_or_create_dx_project(i) ==
    /\ inv[i].pc = "get_or_create"
    /\ \E date \in {d \in Dates : d.year = 2024 /\ d.day = 5} :
         LET out == get_or_create_dx_project(inv_args, date, inv[i].existing,
                        [projects |-> cloud_projects, invites |-> <<>>,
                         folders |-> {}], NoExc, NoExc)
             made == Len(out.world.projects) > Len(cloud_projects)
         IN  /\ inv' = [inv EXCEPT ![i].pc = "done",
                                   ![i].created = made,
                                   ![i].project_id =
                                       IF made
                                       THEN Str(CloudProjectId(Len(cloud_projects) + 1))
                                       ELSE out.ret]
             /\ cloud_projects' =
                    IF made
                    THEN Append(cloud_projects,
                                [id |-> CloudProjectId(Len(cloud_projects) + 1),
                                 name |-> CreatedName(inv_script, date,
                                              RemoveAll(inv_args.input_config,
                                                        dot_json))])
                    ELSE cloud_projects
    /\ UNCHANGED <<inv_script, inv_args, inv_concurrent>>
    /\ UNCHANGED notInv

NextInvocations ==
    \E i \in 1..MaxInvocations :
        \/ inv_find_dx_test_project(i)
        \/ inv_get_or_create_dx_project(i)

(***************************************************************************)
(* copy_test_data.py : main, with the files of the two projects            *)
(***************************************************************************)

\* '/'.join(folder_name.split('/')[:-1])
main_folder_of(folder_name) ==
    LET parts == Split(folder_name, "/")
    IN  Join(SubSeq(parts, 1, Len(parts) - 1), <<"/">>)

\* f'/GitHub_Actions_run-{self.args.run_id}'
github_actions_folder(run_id) ==
    <<"/", "G", "i", "t", "H", "u", "b", "_", "A", "c", "t", "i", "o",
      "n", "s", "_", "r", "u", "n", "-">> \o run_id

\* the platform's notion of a folder lying in a folder, or being it
InFolder(folder, parent) ==
    \/ folder = parent
    \/ StartsWith(folder, parent \o <<"/">>)

\* the Dias single folder of the batch job
single_folder == <<"/", "o", "u", "t", "p", "u", "t", "/", "a">>

\* folders of the 002 project that hold files: the Dias single folder, a
\* folder in it, and another folder of /output
FoldersOf002 ==
    {single_folder, single_folder \o <<"/", "s">>,
     <<"/", "o", "u", "t", "p", "u", "t", "/", "b">>}

\* the files of the 002 project, in the order a search gives them, each
\* with the folder it has in the test project before the run (<<>>: the
\* test project does not hold it)
FilesOf002 ==
    UNION {[1..n -> [folder : FoldersOf002,
                     in_test_project : {<<>>, github_actions_folder(<<"0">>)}]] :
              n \in 0..MaxFiles}

\* where file k of the 002 project is in the test project before the run
FolderBefore(files, k) ==
    IF files[k].in_test_project = <<>> THEN <<>>
    ELSE files[k].in_test_project \o files[k].folder

\* project_clone of main_folder into the run's folder: the response's
\* 'exists', the IDs of the files the test project already holds
ClonedExists(files, main_folder) ==
    SelectSeq([k \in 1..Len(files) |-> k],
              LAMBDA k : /\ InFolder(files[k].folder, main_folder)
                         /\ files[k].in_test_project # <<>>)

\* a search of the whole cloned folder instead of the Dias single folder
find_in_main_folder(files, folder_name) ==
    SelectSeq([k \in 1..Len(files) |-> k],
              LAMBDA k : InFolder(files[k].folder, main_folder_of(folder_name)))

\* find_data_in_original_path within main: the files of the folder
find_in_single_folder(files, folder_name) ==
    SelectSeq([k \in 1..Len(files) |-> k],
              LAMBDA k : InFolder(files[k].folder, folder_name))

\* main of copy_test_data for run `run_id`: the clone, the search, the
\* pairs and the moves; `fault` names the step that raises ("none": no step)
copy_test_data_main(run_id, files, folder_name, fault) ==
    LET ga_folder == github_actions_folder(run_id)
        existing_files == ClonedExists(files, main_folder_of(folder_name))
        after_clone ==
            [k \in 1..Len(files) |->
                IF /\ InFolder(files[k].folder, main_folder_of(folder_name))
                   /\ files[k].in_test_project = <<>>
                THEN ga_folder \o files[k].folder
                ELSE FolderBefore(files, k)]
        found == find_in_single_folder(files, folder_name)
        file_folder_pairs ==
            prefix_folders_with_github_actions_folder(
                [n \in 1..Len(found) |->
                    [id |-> FileId(found[n]),
                     describe |-> [folder |-> files[found[n]].folder]]],
                {FileId(existing_files[n]) : n \in 1..Len(existing_files)},
                ga_folder)
        after_moves ==
            [k \in 1..Len(files) |->
                IF \E n \in 1..Len(file_folder_pairs) :
                       file_folder_pairs[n][1] = FileId(k)
                THEN (CHOOSE pair \in {file_folder_pairs[n] :
                                          n \in 1..Len(file_folder_pairs)} :
                          pair[1] = FileId(k))[2]
                ELSE after_clone[k]]
        raised(step) == [type |-> "DXError", msg |-> msg_oh_no]
    IN  IF fault = "copy_whole_folder_to_project"
        THEN [exc |-> raised(fault), ret |-> None, calls |-> <<>>,
              world |-> [k \in 1..Len(files) |-> FolderBefore(files, k)]]
        ELSE IF fault = "find_data_in_original_path"
        THEN [exc |-> raised(fault), ret |-> None, calls |-> <<>>,
              world |-> after_clone]
        ELSE IF fault = "find_qc_status_file_in_project"
        THEN [exc |-> raised(fault), ret |-> None, calls |-> file_folder_pairs,
              world |-> after_moves]
        ELSE [exc |-> NoExc, ret |-> None, calls |-> file_folder_pairs,
              world |-> after_moves]

CopyMainStart ==
    /\ fn = "copy_test_data.main"
    /\ fn_args \in [run_id : {<<"1">>}, files : FilesOf002,
                    folder_name : {single_folder},
                    fault : {"none", "copy_whole_folder_to_project",
                             "find_data_in_original_path",
                             "find_qc_status_file_in_project"}]
    /\ fn_pc = "call"
    /\ fn_ret = None
    /\ fn_exc = NoExc
    /\ fn_calls = <<>>
    /\ fn_world = [k \in 1..Len(fn_args.files) |-> FolderBefore(fn_args.files, k)]

call_copy_test_data_main ==
    /\ fn_pc = "call"
    /\ fn = "copy_test_data.main"
    /\ CallFinishWorld(copy_test_data_main(fn_args.run_id, fn_args.files,
                                           fn_args.folder_name, fn_args.fault))

NextCopyMain == call_copy_test_data_main

(***************************************************************************)
(* Specifications: one script runs, the others are idle                    *)
(***************************************************************************)

WaitInit == WaitStart /\ TermIdle /\ LookIdle /\ ConfIdle /\ PoolIdle /\ CallIdle /\ MainIdle /\ InvIdle
SpecWait == WaitInit /\ [][NextWait]_vars

TerminateInit == TermStart /\ WaitIdle /\ LookIdle /\ ConfIdle /\ PoolIdle /\ CallIdle /\ MainIdle /\ InvIdle
SpecTerminate == TerminateInit /\ [][NextTerminate]_vars

LookupInit == LookStart /\ WaitIdle /\ TermIdle /\ ConfIdle /\ PoolIdle /\ CallIdle /\ MainIdle /\ InvIdle
SpecLookup == LookupInit /\ [][NextLookup]_vars

ConfigInit == ConfStart /\ WaitIdle /\ TermIdle /\ LookIdle /\ PoolIdle /\ CallIdle /\ MainIdle /\ InvIdle
SpecConfig == ConfigInit /\ [][NextConfig]_vars

CallInParallelInit == PoolStart /\ WaitIdle /\ TermIdle /\ LookIdle /\ ConfIdle /\ CallIdle /\ MainIdle /\ InvIdle
SpecCallInParallel == CallInParallelInit /\ [][NextPool]_vars

FindNonTerminalInit ==
    FindNonTerminalStart /\ WaitIdle /\ TermIdle /\ LookIdle /\ ConfIdle /\ PoolIdle
        /\ MainIdle /\ InvIdle
SpecFindNonTerminal == FindNonTerminalInit /\ [][NextFindNonTerminal]_vars

UpdateInputsInit ==
    UpdateInputsStart /\ WaitIdle /\ TermIdle /\ LookIdle /\ ConfIdle /\ PoolIdle
        /\ MainIdle /\ InvIdle
SpecUpdateInputs == UpdateInputsInit /\ [][NextUpdateInputs]_vars

ProjectInit ==
    ProjectStart /\ WaitIdle /\ TermIdle /\ LookIdle /\ ConfIdle /\ PoolIdle
        /\ MainIdle /\ InvIdle
SpecProject == ProjectInit /\ [][NextProject]_vars

PrefixFoldersInit ==
    PrefixFoldersStart /\ WaitIdle /\ TermIdle /\ LookIdle /\ ConfIdle /\ PoolIdle
        /\ MainIdle /\ InvIdle
SpecPrefixFolders == PrefixFoldersInit /\ [][NextPrefixFolders]_vars

FindDataInit ==
    FindDataStart /\ WaitIdle /\ TermIdle /\ LookIdle /\ ConfIdle /\ PoolIdle
        /\ MainIdle /\ InvIdle
SpecFindData == FindDataInit /\ [][NextFindData]_vars

GetJsonConfigsInit ==
    GetJsonConfigsStart /\ WaitIdle /\ TermIdle /\ LookIdle /\ ConfIdle /\ PoolIdle
        /\ MainIdle /\ InvIdle
SpecGetJsonConfigs == GetJsonConfigsInit /\ [][NextGetJsonConfigs]_vars

CheckMainInit ==
    CheckMainStart /\ WaitIdle /\ TermIdle /\ LookIdle /\ ConfIdle /\ PoolIdle
        /\ CallIdle /\ InvIdle
SpecCheckMain == CheckMainInit /\ [][NextCheckMain]_vars

InvocationsInit ==
    InvStart /\ WaitIdle /\ TermIdle /\ LookIdle /\ ConfIdle /\ PoolIdle
        /\ CallIdle /\ MainIdle
SpecInvocations == InvocationsInit /\ [][NextInvocations]_vars

CopyMainInit ==
    CopyMainStart /\ WaitIdle /\ TermIdle /\ LookIdle /\ ConfIdle /\ PoolIdle
        /\ MainIdle /\ InvIdle
SpecCopyMain == CopyMainInit /\ [][NextCopyMain]_vars

MainInit ==
    MainStart /\ WaitIdle /\ TermIdle /\ LookIdle /\ ConfIdle /\ PoolIdle
        /\ CallIdle /\ InvIdle
SpecMain == MainInit /\ [][NextMain]_vars

(***************************************************************************)
(* Properties of wait_on_done                                              *)
(***************************************************************************)

\* s ends with suffix
EndsWith(s, suffix) ==
    /\ Len(s) >= Len(suffix)
    /\ SubSeq(s, Len(s) - Len(suffix) + 1, Len(s)) = suffix

\* C1: wait_on_done waits on the references one at a time in list order and
\* stops at the first failure: the waits made so far are exactly the first
\* Len(w_calls) references of the list, each waited on once; every wait but
\* the last one succeeded; and once a wait has raised, that wait is the last
\* one (no later reference is ever waited on).
C1_WaitsInOrderStopAtFirstFailure ==
    /\ Len(w_calls) <= Len(all_job_ids)
    /\ \A k \in 1..Len(w_calls) : w_calls[k].dxid = all_job_ids[k]
    /\ \A k \in 1..(Len(w_calls) - 1) : w_calls[k].outcome = NoExc
    /\ w_pc = "raised" =>
          /\ Len(w_calls) >= 1
          /\ w_calls[Len(w_calls)].outcome # NoExc
          /\ w_idx = Len(w_calls)
    /\ w_pc # "raised" => \A k \in 1..Len(w_calls) : w_calls[k].outcome = NoExc

\* C1 witness: [A, B, C] where A succeeded, B raised the job-failure fault
C1_Witness ==
    /\ w_pc = "raised"
    /\ Len(all_job_ids) = 3
    /\ Len(w_calls) = 2
    /\ w_calls[1].outcome = NoExc
    /\ w_calls[2].outcome.type = "DXJobFailureError"

\* C2: when the wait on a reference raises the job-failure fault,
\* wait_on_done raises a DXJobFailureError whose message names that
\* reference, ends with the original fault's message, and names no other
\* reference of the list; for job and for analysis references alike.
C2_FailureNamesTheReference ==
    (w_pc = "raised" /\ w_calls[Len(w_calls)].outcome.type = "DXJobFailureError")
        => LET failed == w_calls[Len(w_calls)]
           IN  /\ w_raised.type = "DXJobFailureError"
               /\ Contains(w_raised.msg, failed.dxid)
               /\ EndsWith(w_raised.msg, failed.outcome.msg)
               /\ Len(w_raised.msg) > Len(failed.dxid) + Len(failed.outcome.msg)
               /\ \A r \in Refs \ {failed.dxid} : ~Contains(w_raised.msg, r)

\* C2 witness: an analysis reference failed after a job reference succeeded
C2_Witness ==
    /\ w_pc = "raised"
    /\ Len(w_calls) = 2
    /\ w_calls[1].kind = "DXJob"
    /\ w_calls[2].kind = "DXAnalysis"
    /\ w_calls[2].outcome.type = "DXJobFailureError"
    /\ w_raised.type = "DXJobFailureError"

\* C3: if wait_on_done returns normally then every element of the list was
\* waited on exactly once, through the wait primitive of its own kind, and
\* every wait succeeded (as many DXJob waits as `job-` references, as many
\* DXAnalysis waits as other references); the success line is printed in
\* that case and in no other.
C3_NormalReturnMeansAllWaited ==
    LET positions == 1..Len(all_job_ids)
        success == \E n \in 1..Len(w_stdout) :
                       w_stdout[n] = "All jobs completed successfully!"
    IN  /\ w_pc = "returned" =>
              /\ Len(w_calls) = Len(all_job_ids)
              /\ \A k \in positions :
                    /\ w_calls[k].dxid = all_job_ids[k]
                    /\ w_calls[k].outcome = NoExc
              /\ Cardinality({k \in positions : w_calls[k].kind = "DXJob"})
                    = Cardinality({k \in positions : StartsWith(all_job_ids[k], job_dash)})
              /\ Cardinality({k \in positions : w_calls[k].kind = "DXAnalysis"})
                    = Cardinality({k \in positions : ~StartsWith(all_job_ids[k], job_dash)})
        /\ success <=> w_pc = "returned"

\* C3 witness: a normal return for a list holding both kinds of reference
C3_Witness ==
    /\ w_pc = "returned"
    /\ Len(all_job_ids) = 3
    /\ \E k \in 1..3 : w_calls[k].kind = "DXJob"
    /\ \E k \in 1..3 : w_calls[k].kind = "DXAnalysis"

(***************************************************************************)
(* Properties of the reference-kind dispatch                               *)
(***************************************************************************)

\* C4: the dispatch on the kind of a reference is a function of the `job-`
\* prefix alone and is the same when waiting and when terminating: every
\* wait call and every terminate call made for a reference uses the job
\* primitive exactly when the reference starts with `job-`, and the
\* analysis primitive otherwise.
C4_DispatchByJobDashPrefix ==
    LET KindOf(ref) == IF StartsWith(ref, job_dash) THEN "DXJob" ELSE "DXAnalysis"
    IN  /\ \A k \in 1..Len(w_calls) : w_calls[k].kind = KindOf(w_calls[k].dxid)
        /\ \A i \in 1..Len(t_futures) :
              \A n \in 1..Len(t_futures[i].calls) :
                  t_futures[i].calls[n] = KindOf(t_futures[i].dxid)

(***************************************************************************)
(* Properties of the singleton lookups                                     *)
(***************************************************************************)

\* the number of matches of the lookup that runs: the objects found (QC
\* status file, MultiQC report) or the launched `job-` references whose
\* name holds GATKgCNV
Matches ==
    IF l_fn = "cnv"
    THEN {k \in 1..Len(l_found) :
             StartsWith(l_found[k].id, job_dash) /\ Contains(l_found[k].name, GATKgCNV)}
    ELSE 1..Len(l_found)

\* the reference of match k, as the lookup returns it
MatchRef(k) ==
    IF l_fn = "cnv" THEN Str(l_found[k].id) ELSE Str(ProjectFileId(l_found[k]))

\* C5 (as claimed): every singleton lookup fails with 0 matches, fails with
\* 2 or more matches, and returns the one match's reference with exactly 1.
C5_ExactlyOneRule ==
    l_pc \in {"returned", "raised"} =>
        /\ Cardinality(Matches) = 0 => l_pc = "raised"
        /\ Cardinality(Matches) >= 2 => l_pc = "raised"
        /\ Cardinality(Matches) = 1 =>
              l_pc = "returned" /\ \A k \in Matches : l_ret = MatchRef(k)

\* C5 (amended): with 2 or more matches every lookup raises an
\* AssertionError; with exactly 1 it returns that match's reference; with 0
\* matches the MultiQC and CNV lookups raise an AssertionError (MultiQC with
\* the same 'No or multiple' message as for several matches), while
\* find_qc_status_file_in_project returns None without raising.
C5_ExactlyOneRuleAmended ==
    l_pc \in {"returned", "raised"} =>
        /\ l_pc = "raised" <=> l_exc.type = "AssertionError"
        /\ l_pc = "raised" => l_ret = None
        /\ Cardinality(Matches) >= 2 => l_pc = "raised"
        /\ Cardinality(Matches) = 1 =>
              l_pc = "returned" /\ \A k \in Matches : l_ret = MatchRef(k)
        /\ (Cardinality(Matches) = 0 /\ l_fn \in {"multiqc", "cnv"}) => l_pc = "raised"
        /\ (Cardinality(Matches) = 0 /\ l_fn = "qc") =>
              l_pc = "returned" /\ l_ret = None
        /\ (l_fn = "multiqc" /\ l_pc = "raised") => l_exc.msg = MultiqcMsg(project_1)

\* C5 witness: the QC status lookup has ended for a search that found two files
C5_Witness ==
    /\ l_fn = "qc"
    /\ Len(l_found) = 2
    /\ l_pc = "raised"

(***************************************************************************)
(* Properties of filter_highest_batch_config                               *)
(***************************************************************************)

\* positions of the live config files of the requested assay
LiveOfAssay ==
    {k \in 1..Len(config_files) :
        config_files[k].archivalState = "live" /\ config_files[k].assay = assay}

\* those of them whose version no live config of the assay exceeds
HighestOfAssay ==
    {k \in LiveOfAssay :
        \A m \in LiveOfAssay :
            ~VersionGreater(config_files[m].version, config_files[k].version)}

FilterEnded == c_pc \in {"returned", "raised"}

\* C6: a tie for the highest version is never resolved silently: whenever
\* two or more live config files of the assay carry the highest version
\* (here: even the very same version string), the function raises the
\* 'more than one file found for highest version' RuntimeError naming every
\* tied file (name and id) and returns no config; when the highest version
\* is carried by one file only, ties among lower versions raise nothing.
C6_TieForHighestAlwaysRaises ==
    FilterEnded =>
        /\ \A k \in HighestOfAssay, m \in HighestOfAssay :
              (k # m /\ config_files[k].version = config_files[m].version)
                  => /\ c_pc = "raised"
                     /\ c_exc.type = "RuntimeError"
                     /\ \E n \in 1..Len(c_exc.files) :
                            c_exc.files[n] = <<config_files[k].name, config_files[k].id>>
        /\ Cardinality(HighestOfAssay) = 1 => c_exc.type # "RuntimeError"

\* C7: for a non-empty list of live config files of the one assay whose
\* versions are pairwise distinct, in any order, the function returns the
\* config with the greatest version under semantic-version ordering, with
\* dxid and name set to that file's id and name.
C7_HighestVersionSelected ==
    (/\ FilterEnded
     /\ Len(config_files) >= 1
     /\ LiveOfAssay = 1..Len(config_files)
     /\ \A k \in LiveOfAssay, m \in LiveOfAssay :
            k # m => ~VersionEqual(config_files[k].version, config_files[m].version))
        => /\ c_pc = "returned"
           /\ \A k \in HighestOfAssay :
                 /\ highest_config.version = config_files[k].version
                 /\ highest_config.dxid = config_files[k].id
                 /\ highest_config.name = config_files[k].name

\* C8: a config file that is not live is never read, never entered in the
\* per-version log of files, never returned and never named in the tie
\* error, whatever its version; it is logged as skipped, once, when the
\* loop reaches it.
C8_NonLiveNeverUsed ==
    \A k \in 1..Len(config_files) :
        config_files[k].archivalState # "live" =>
            LET file == config_files[k]
                skips == {n \in 1..Len(c_stdout) :
                             /\ c_stdout[n].text = "Config file not in live state - will not be used:"
                             /\ c_stdout[n].id = file.id
                             /\ c_stdout[n].name = file.name}
            IN  /\ \A n \in 1..Len(c_read) : c_read[n] # file.id
                /\ \A v \in ConfigVersions :
                      \A n \in 1..Len(config_version_files[v]) :
                          config_version_files[v][n] # <<file.name, file.id>>
                /\ highest_config.dxid # file.id
                /\ \A n \in 1..Len(c_exc.files) : c_exc.files[n] # <<file.name, file.id>>
                /\ Cardinality(skips) = (IF k < c_idx THEN 1 ELSE 0)

\* C8 witness: a config was returned although a non-live config of the same
\* assay carries a greater version than every live one
C8_Witness ==
    /\ c_pc = "returned"
    /\ \E k \in 1..Len(config_files) :
          /\ config_files[k].archivalState # "live"
          /\ config_files[k].assay = assay
          /\ VersionGreater(config_files[k].version, highest_config.version)
          /\ \A m \in LiveOfAssay :
                VersionGreater(config_files[k].version, config_files[m].version)

(***************************************************************************)
(* Properties of call_in_parallel                                          *)
(***************************************************************************)

\* how often x occurs in the sequence s
Count(s, x) == Cardinality({n \in 1..Len(s) : s[n] = x})

\* C9: if the call of func raises for at least one item, call_in_parallel
\* raises to its caller an exception that one of the failing units raised
\* (that very exception, so the same type) and returns no result list; if
\* no unit raises, it returns a list with one result per item.
C9_RaisesAUnitsExceptionOrReturnsAll ==
    LET failing == {i \in 1..Len(p_futures) : p_futures[i].exc # NoUnitExc}
    IN  /\ p_pc \in {"returned", "raised"} =>
              (failing # {} <=> p_pc = "raised")
        /\ p_pc = "raised" =>
              /\ \E i \in failing : p_exc = p_futures[i].exc
              /\ p_ret = None
        /\ p_pc = "returned" =>
              /\ p_exc = NoUnitExc
              /\ p_ret.kind = "list"
              /\ Len(p_ret.value) = Len(items)
              /\ \A x \in ItemPairs :
                    Count(p_ret.value, FuncResult(x)) = Count(items, x)

\* C9 witness: three items, the unit of the third raised, the caller got it
C9_Witness ==
    /\ p_pc = "raised"
    /\ Len(items) = 3
    /\ p_futures[1].exc = NoUnitExc
    /\ p_futures[2].exc = NoUnitExc
    /\ p_exc = p_futures[3].exc
    /\ p_exc.type = "DXError"

\* C10 (as claimed): the first exception met by the loop is re-raised to the
\* caller at once, without waiting for the units still in flight: once the
\* loop has met an exception, the caller can get it whatever the other
\* units are doing.
C10_RaisedWithoutWaiting ==
    p_pc = "exit_raising" => ENABLED call_in_parallel_exit

\* C10 (amended): call_in_parallel blocks its caller until every submitted
\* unit has completed, also when a unit raised: the first exception met by
\* the loop reaches the caller only after the executor has waited for all
\* units still queued or in flight; no unit is cancelled, every submitted
\* unit runs exactly once.
C10_BlocksUntilEveryUnitHasRun ==
    /\ p_pc \in {"returned", "raised"} =>
          /\ Len(p_futures) = Len(items)
          /\ \A i \in 1..Len(p_futures) :
                p_futures[i].state = "finished" /\ p_futures[i].calls = 1
    /\ \A i \in 1..Len(p_futures) :
          /\ p_futures[i].state \in {"pending", "running", "finished"}
          /\ p_futures[i].item = items[i]
          /\ p_futures[i].calls = (IF p_futures[i].state = "finished" THEN 1 ELSE 0)

\* C10 witness: the caller got the exception, and a unit that was still in
\* flight when the loop met the exception ran to its end before that
C10_Witness ==
    /\ p_pc = "raised"
    /\ p_late # {}

(***************************************************************************)
(* Properties of terminate                                                 *)
(***************************************************************************)

\* the units submitted for the ID x
UnitsOf(x) == {i \in 1..Len(t_futures) : t_futures[i].dxid = x}

\* the failure lines printed for the ID x
ErrorLinesOf(x) ==
    {n \in 1..Len(t_stdout) :
        t_stdout[n].text = "Error terminating job " /\ t_stdout[n].dxid = x}

\* C11: terminate is best-effort: for any list of IDs and any subset whose
\* terminate call raises, it issues exactly one terminate call per element
\* of the list (a failure on one does not prevent or repeat the attempt on
\* another: never more than one call per unit, whatever the other units
\* did), logs each failure with the failing ID (one line per failed unit,
\* carrying the fault's message, and no line for a unit that succeeded), and
\* returns normally: no exception leaves it, the loop over the completed
\* units always has a step to take (a unit to start, to run or to collect,
\* or the return), and once it has returned every element has had its one
\* call and the closing line is printed last.
C11_TerminateBestEffort ==
    /\ Len(t_futures) <= Len(jobs)
    /\ \A x \in Refs : Cardinality(UnitsOf(x)) <= Count(jobs, x)
    /\ \A i \in 1..Len(t_futures) :
          Len(t_futures[i].calls) = (IF t_futures[i].state = "finished" THEN 1 ELSE 0)
    /\ \A x \in Refs :
          /\ Cardinality(ErrorLinesOf(x))
                = Cardinality({i \in UnitsOf(x) :
                                  t_futures[i].yielded /\ t_futures[i].exc # NoExc})
          /\ \A n \in ErrorLinesOf(x) : t_stdout[n].exc = msg_oh_no
    /\ t_pc \in {"submit", "as_completed", "returned"}
    /\ t_pc = "as_completed" =>
          ENABLED (terminate_worker_start \/ terminate_one
                      \/ terminate_result \/ terminate_return)
    /\ t_pc = "returned" =>
          /\ \A x \in Refs : Cardinality(UnitsOf(x)) = Count(jobs, x)
          /\ \A i \in 1..Len(t_futures) :
                /\ Len(t_futures[i].calls) = 1
                /\ t_futures[i].yielded
          /\ t_stdout[Len(t_stdout)].text = "Terminated all current jobs."

\* C11 witness: three IDs, the terminate call raised for two of them and
\* succeeded for the third; terminate has returned
C11_Witness ==
    /\ t_pc = "returned"
    /\ Len(jobs) = 3
    /\ Cardinality({i \in 1..3 : t_futures[i].exc # NoExc}) = 2
    /\ Cardinality({n \in 1..Len(t_stdout) :
                       t_stdout[n].text = "Error terminating job "}) = 2

(***************************************************************************)
(* Properties of find_non_terminal_jobs                                    *)
(***************************************************************************)

\* the positions of the executions given whose state is not in `ends`
NotIn(ends) ==
    {k \in 1..Len(fn_args.executions) : fn_args.executions[k].state \notin ends}

\* the value returned is the list of the IDs at the positions `kept` of the
\* executions given, in input order
ReturnsIdsAt(kept) ==
    /\ fn_ret.kind = "list"
    /\ Len(fn_ret.value) = Cardinality(kept)
    /\ \A n \in 1..Len(fn_ret.value) :
          \E k \in kept :
              /\ Cardinality({m \in kept : m < k}) = n - 1
              /\ fn_ret.value[n] = fn_args.executions[k].id

\* C12: find_non_terminal_jobs, in run_testing_jobs.py and in the root
\* check_jobs_complete.py alike, returns in input order exactly the IDs of
\* the executions whose state is none of done, terminated, failed,
\* terminating, partially_failed (so the empty list when the input is empty
\* or every execution is in one of these states): an execution in an end
\* state is never selected for termination.
C12_FiveEndStatesEverywhere ==
    (fn = "find_non_terminal_jobs" /\ fn_pc = "returned") =>
        ReturnsIdsAt(NotIn({"done", "terminated", "failed", "terminating",
                            "partially_failed"}))

(***************************************************************************)
(* Properties of update_inputs_to_batch_job                                *)
(***************************************************************************)

\* the call of update_inputs_to_batch_job has returned (app_name, job_inputs)
UpdateReturned == fn = "update_inputs_to_batch_job" /\ fn_pc = "returned"

\* the job_inputs returned
UpdatedInputs == fn_ret.value[2]

\* C18: update_inputs_to_batch_job changes only the keys single_output_dir,
\* assay_config_file, multiqc_report and sample_limit, plus cnv_call and
\* cnv_call_job_id when a CNV job ID is given: every other key of the
\* original input map is in the result with its original value, and no
\* other key is added or removed (the keys of the result are those of the
\* original and those the update sets).
C18_OnlyTheNamedKeysChange ==
    UpdateReturned =>
        LET set == {"single_output_dir", "assay_config_file", "multiqc_report",
                    "sample_limit"}
                       \cup (IF Truthy(fn_args.cnv_job_id)
                             THEN {"cnv_call", "cnv_call_job_id"} ELSE {})
        IN  /\ DOMAIN UpdatedInputs = DOMAIN fn_args.input \cup set
            /\ \A k \in DOMAIN fn_args.input \ set :
                  UpdatedInputs[k] = fn_args.input[k]

\* C18 witness: a CNV job ID was given and the original inputs held other
\* keys, which the result still has
C18_Witness ==
    /\ UpdateReturned
    /\ Truthy(fn_args.cnv_job_id)
    /\ {"assay", "snv_reports", "cnv_call"} \subseteq DOMAIN fn_args.input
    /\ "cnv_call_job_id" \notin DOMAIN fn_args.input
    /\ UpdatedInputs["assay"] = fn_args.input["assay"]

\* C19: CNV re-use in update_inputs_to_batch_job: when a CNV job ID is given
\* the result has cnv_call_job_id equal to that ID and cnv_call equal to
\* False; when none is given the result has no cnv_call_job_id key and
\* cnv_call is exactly as in the original inputs (absent if it was absent).
\* In main a CNV job ID is looked up only when the assay is CEN and
\* --run_cnv_calling is not set.
C19_CnvReuse ==
    /\ UpdateReturned =>
          IF Truthy(fn_args.cnv_job_id)
          THEN /\ Get(UpdatedInputs, "cnv_call_job_id") = fn_args.cnv_job_id
               /\ Get(UpdatedInputs, "cnv_call") = Bool(FALSE)
          ELSE /\ "cnv_call_job_id" \notin DOMAIN UpdatedInputs
               /\ Get(UpdatedInputs, "cnv_call") = Get(fn_args.input, "cnv_call")
    /\ (\E k \in 1..Len(m_done) : m_done[k] = "get_cnv_calling_job_id") =>
          (m_args.assay = "CEN" /\ ~m_args.run_cnv_calling)

(***************************************************************************)
(* Properties of main in run_testing_jobs.py and copy_test_data.py         *)
(***************************************************************************)

\* the executions that were in the test project when main enumerated them
\* and were in none of the end states
StaleExecutions ==
    {k \in 1..Len(m_env.executions) :
        m_env.executions[k].state \notin
            {"done", "terminated", "failed", "terminating", "partially_failed"}}

\* C13: in run_testing_jobs.main the cleanup precedes the launch: once the
\* test job is launched, every execution that was in the test project in a
\* non-end state (and the enumeration saw all that were there) has had its
\* one terminate call issued and completed, successfully or logged as
\* failed, and terminate has returned; and the launched job is never among
\* the executions this invocation hands to terminate, before or after.
C13_CleanupPrecedesLaunch ==
    /\ m_launched # <<>> =>
          /\ m_env.executions = SubSeq(project_executions, 1,
                                       Len(project_executions) - Len(m_launched))
          /\ StaleExecutions # {} => t_pc = "returned"
          /\ \A k \in StaleExecutions :
                \E i \in 1..Len(t_futures) :
                    /\ t_futures[i].dxid = m_env.executions[k].id
                    /\ t_futures[i].state = "finished"
                    /\ Len(t_futures[i].calls) = 1
                    /\ t_futures[i].exc # NoExc =>
                          \E n \in 1..Len(t_stdout) :
                              /\ t_stdout[n].text = "Error terminating job "
                              /\ t_stdout[n].dxid = t_futures[i].dxid
    /\ \A n \in 1..Len(m_launched) :
          /\ \A i \in 1..Len(t_futures) : t_futures[i].dxid # m_launched[n]
          /\ \A i \in 1..Len(jobs) : jobs[i] # m_launched[n]

\* C13 witness: the test job was launched in a project that held two
\* running executions; the terminate call of one of them had raised
C13_Witness ==
    /\ m_launched = <<new_job_id>>
    /\ Cardinality(StaleExecutions) = 2
    /\ \E i \in 1..Len(t_futures) : t_futures[i].exc # NoExc
    /\ \E i \in 1..Len(t_futures) : t_futures[i].exc = NoExc

\* main has called the method that describes the batch job
BatchJobDescribed ==
    \E k \in 1..Len(m_done) :
        m_done[k] \in {"get_project_id_from_batch_job", "get_details_from_batch_job"}

\* C14: get_details_from_batch_job and get_project_id_from_batch_job return
\* a project ID only when describe succeeded and the described state is
\* exactly 'done'.  If describe raises a DXError, a DXError is raised whose
\* message names the job ID and ends with the original message; if the
\* state is any other value (or missing), an AssertionError naming the job
\* ID is raised; in both cases nothing is returned and no later step of main
\* runs: the method is the last step main called, and no job was launched.
C14_ProjectOnlyFromDoneJob ==
    BatchJobDescribed =>
        LET d == m_env.described
            describe_failed == IsDXError(d.exc.type)
            not_done == d.exc = NoExc /\ d.state # Str(<<"done">>)
        IN  /\ describe_failed =>
                  /\ m_exc.type = "DXError"
                  /\ Contains(m_exc.msg, assay_job_id)
                  /\ EndsWith(m_exc.msg, d.exc.msg)
                  /\ Len(m_exc.msg) > Len(assay_job_id) + Len(d.exc.msg)
            /\ not_done =>
                  /\ m_exc.type = "AssertionError"
                  /\ Contains(m_exc.msg, assay_job_id)
            /\ (describe_failed \/ not_done) =>
                  /\ m_pc = "raised"
                  /\ m_env.project_id = None
                  /\ m_done[Len(m_done)] \in {"get_project_id_from_batch_job",
                                              "get_details_from_batch_job"}
                  /\ m_launched = <<>>
                  /\ t_pc = "idle"
            /\ m_env.project_id # None =>
                  d.exc = NoExc /\ d.state = Str(<<"done">>)

\* C14 witness: copy_test_data ended on the DXError made from the
\* ResourceNotFound that describe raised
C14_Witness ==
    /\ m_script = "copy_test_data"
    /\ m_pc = "raised"
    /\ m_env.described.exc.type = "ResourceNotFound"
    /\ m_exc.type = "DXError"

\* the requests of one kind among those a method made
CallsOf(op) == {n \in 1..Len(fn_calls) : fn_calls[n].op = op}

\* C16: unless the search itself fails, find_dx_test_project returns the
\* empty list when no project matches and the one-element list when one
\* matches, and raises AssertionError with the id and the name of every
\* matching project when two or more match; a list it returns never has
\* more than one project.
C16_AtMostOneTestProject ==
    (fn = "find_dx_test_project" /\ fn_pc # "call") =>
        LET found == fn_args.found
        IN  /\ fn_pc = "returned" => Len(fn_ret.value) <= 1
            /\ fn_args.fault = NoExc =>
                  /\ Len(found) = 0 => fn_pc = "returned" /\ fn_ret = List(<<>>)
                  /\ Len(found) = 1 => fn_pc = "returned" /\ fn_ret = List(found)
                  /\ Len(found) >= 2 =>
                        /\ fn_pc = "raised"
                        /\ fn_exc.type = "AssertionError"
                        /\ \A k \in 1..Len(found) :
                              Contains(fn_exc.msg,
                                       found[k].id \o <<":", " ">> \o found[k].name)

C16_Witness ==
    /\ fn = "find_dx_test_project"
    /\ fn_pc = "raised"
    /\ fn_exc.type = "AssertionError"
    /\ Len(fn_args.found) = 3

\* C15: when get_or_create_dx_project returns, then given a non-empty list
\* it has returned the ID of the first existing project and has created no
\* project and invited nobody, and given an empty list it has created
\* exactly one project, named 004_<YYMMDD>_GitHub_Actions_<config>_testing
\* with today's date and the config name without '.json', has invited
\* org-emee_1 to it once with CONTRIBUTE access and no email, and has
\* returned the ID of the new project.
C15_GetOrCreateProject ==
    (fn = "get_or_create_dx_project" /\ fn_pc = "returned") =>
        LET existing == fn_args.existing_projects
            date == fn_args.date
            config == fn_args.args.input_config
        IN  /\ existing # <<>> =>
                  /\ fn_ret = Str(existing[1].id)
                  /\ CallsOf("DXProject.new") = {}
                  /\ CallsOf("DXProject.invite") = {}
                  /\ fn_world.projects = existing
                  /\ fn_world.invites = <<>>
            /\ existing = <<>> =>
                  /\ Cardinality(CallsOf("DXProject.new")) = 1
                  /\ Len(fn_world.projects) = 1
                  /\ fn_ret = Str(fn_world.projects[1].id)
                  /\ LET name == fn_world.projects[1].name
                     IN  /\ SubSeq(name, 1, 4) = <<"0", "0", "4", "_">>
                         /\ name[5] = Digits[((date.year % 100) \div 10) + 1]
                         /\ name[6] = Digits[(date.year % 10) + 1]
                         /\ name[7] = Digits[(date.month \div 10) + 1]
                         /\ name[8] = Digits[(date.month % 10) + 1]
                         /\ name[9] = Digits[(date.day \div 10) + 1]
                         /\ name[10] = Digits[(date.day % 10) + 1]
                         /\ SubSeq(name, 11, Len(name)) =
                                <<"_", "G", "i", "t", "H", "u", "b", "_",
                                  "A", "c", "t", "i", "o", "n", "s", "_">>
                                    \o RemoveAll(config, dot_json)
                                    \o <<"_", "t", "e", "s", "t", "i", "n", "g">>
                         /\ ~ Contains(config, dot_json) =>
                               SubSeq(name, 27, Len(name) - 8) = config
                         /\ config = <<"c", "f", "g">> \o dot_json =>
                               SubSeq(name, 27, Len(name) - 8) = <<"c", "f", "g">>
                  /\ fn_world.invites =
                        <<[project |-> fn_world.projects[1].id,
                           user |-> "org-emee_1", level |-> "CONTRIBUTE",
                           send_email |-> FALSE]>>
                  /\ Cardinality(CallsOf("DXProject.invite")) = 1

C15_Witness ==
    /\ fn = "get_or_create_dx_project"
    /\ fn_pc = "returned"
    /\ fn_args.existing_projects = <<>>
    /\ fn_args.date.month = 1
    /\ Len(fn_world.projects) = 1
    /\ Len(fn_world.invites) = 1

\* C17: create_dx_folder returns /GitHub_Actions_run-<run-id>_<timestamp>
\* whenever it returns; it asks for a new folder exactly when the listing
\* raised ResourceNotFound, that is when the listing did not fail otherwise
\* and the project had no such folder, and then once and with
\* parents=True; a folder that exists is left alone, and on return the
\* folder is in the project.
C17_CreateFolderOnce ==
    (fn = "create_dx_folder" /\ fn_pc # "call") =>
        LET folder_name ==
                <<"/", "G", "i", "t", "H", "u", "b", "_", "A", "c", "t",
                  "i", "o", "n", "s", "_", "r", "u", "n", "-">>
                    \o fn_args.args.run_id \o <<"_">> \o fn_args.timestamp
            not_found == fn_args.list_fault = NoExc
                            /\ folder_name \notin fn_args.folders
            made == CallsOf("dx.api.project_new_folder")
        IN  /\ fn_pc = "returned" =>
                  /\ fn_ret = Str(folder_name)
                  /\ folder_name \in fn_world.folders
            /\ made # {} <=> not_found
            /\ Cardinality(made) <= 1
            /\ \A n \in made :
                  fn_calls[n].arg = [folder |-> folder_name, parents |-> TRUE]
            /\ folder_name \in fn_args.folders => fn_world = [fn_world EXCEPT
                                                     !.folders = fn_args.folders]
            /\ fn_world.folders \subseteq fn_args.folders \cup {folder_name}
            /\ fn_args.folders \subseteq fn_world.folders

C17_Witness ==
    /\ fn = "create_dx_folder"
    /\ fn_pc = "returned"
    /\ fn_args.folders = {<<"/", "o", "u", "t">>}
    /\ Cardinality(fn_world.folders) = 2
    /\ CallsOf("dx.api.project_new_folder") # {}

\* C20: prefix_folders_with_github_actions_folder returns, in the order of
\* the files of the source project, one (id, destination) pair for every
\* file whose id is among the existing ones and none for any other file;
\* a destination is the name of the run's folder followed by the file's
\* folder, character for character; without existing or without source files
\* the result is empty.
C20_PairsForExistingFiles ==
    (fn = "prefix_folders_with_github_actions_folder" /\ fn_pc = "returned") =>
        LET files == fn_args.files_in_002_project
            existing == fn_args.existing_files
            pairs == fn_ret.value
            kept == {k \in 1..Len(files) : files[k].id \in existing}
            \* the place in the result of the k-th source file
            place(k) == Cardinality({m \in kept : m <= k})
        IN  /\ Len(pairs) = Cardinality(kept)
            /\ \A k \in kept :
                  /\ pairs[place(k)][1] = files[k].id
                  /\ LET to == pairs[place(k)][2]
                         ga == fn_args.ga_folder_name
                         folder == files[k].describe.folder
                     IN  /\ Len(to) = Len(ga) + Len(folder)
                         /\ \A n \in 1..Len(ga) : to[n] = ga[n]
                         /\ \A n \in 1..Len(folder) : to[Len(ga) + n] = folder[n]
            /\ (existing = {} \/ files = <<>>) => pairs = <<>>

C20_Witness ==
    /\ fn = "prefix_folders_with_github_actions_folder"
    /\ fn_pc = "returned"
    /\ Len(fn_args.files_in_002_project) = 3
    /\ Len(fn_ret.value) = 2
    /\ fn_ret.value[1][1] = fn_args.files_in_002_project[2].id
    /\ fn_args.ga_folder_name[Len(fn_args.ga_folder_name)] = "/"
    /\ Contains(fn_ret.value[2][2], <<"/", "/">>)

\* C21: when the search of the original Dias single path finds no file,
\* find_data_in_original_path raises an AssertionError whose message names
\* the searched path and the source project; a list it returns is never
\* empty.
C21_NoDataIsAnError ==
    (fn = "find_data_in_original_path" /\ fn_pc # "call") =>
        /\ fn_pc = "returned" => fn_ret.value # <<>>
        /\ (fn_args.fault = NoExc /\ fn_args.found = <<>>) =>
              /\ fn_pc = "raised"
              /\ fn_exc.type = "AssertionError"
              /\ Contains(fn_exc.msg, fn_args.folder_name)
              /\ Contains(fn_exc.msg, fn_args.project_id)

\* C22: for a path of the form project:/path whose search finds no JSON
\* file, get_json_configs_in_DNAnexus raises an AssertionError with the
\* message 'No config files found in given path: <project>:<path>'; for a
\* path not of that form it raises an AssertionError naming the path
\* before any search is made.
C22_NoConfigsMessage ==
    (fn = "get_json_configs_in_DNAnexus" /\ fn_pc # "call") =>
        LET config_path == fn_args.config_path
        IN  /\ ~ MatchesProjectPath(config_path) =>
                  /\ fn_pc = "raised"
                  /\ fn_exc.type = "AssertionError"
                  /\ Contains(fn_exc.msg, config_path)
                  /\ CallsOf("dx.find_data_objects") = {}
            /\ (/\ MatchesProjectPath(config_path)
                /\ Count(config_path, ":") = 1
                /\ fn_args.fault = NoExc
                /\ fn_args.found = <<>>) =>
                  /\ fn_pc = "raised"
                  /\ fn_exc.type = "AssertionError"
                  /\ fn_exc.msg =
                        <<"N", "o", " ", "c", "o", "n", "f", "i", "g",
                          " ", "f", "i", "l", "e", "s", " ", "f", "o",
                          "u", "n", "d", " ", "i", "n", " ", "g", "i",
                          "v", "e", "n", " ", "p", "a", "t", "h", ":",
                          " ">>
                            \o config_path

\* C23: in the script at the repository root, the cleanup of stale
\* executions never terminates the job given as --job_id, which main waits
\* on afterwards, even when that job is still running when the project's
\* executions are listed.
C23_OwnJobSurvivesCleanup ==
    m_script = "check_jobs_complete" =>
        /\ \A i \in 1..Len(jobs) : jobs[i] # m_args.job_id
        /\ ~ JobTerminated(m_args.job_id)

\* C29: the workflow's main waits on the parent job until it is done before
\* it describes it; the references it waits on are the launched_jobs
\* output split on commas, in their order; and the replay command is
\* written before the first of them is waited on, so the file exists
\* whenever a wait on a launched reference fails.
C29_CheckStepsInOrder ==
    m_script = "check_jobs_complete_workflow" =>
        /\ \A k \in 1..Len(m_done) :
              m_done[k] = "DXJob.describe" =>
                  /\ k > 1
                  /\ m_done[k - 1] = "DXJob.wait_on_done"
        /\ (Len(m_done) >= 2 /\ m_done[1] = "DXJob.wait_on_done") =>
              m_done[2] = "DXJob.describe"
        /\ w_pc # "idle" =>
              /\ m_env.out_file # None
              /\ Join(all_job_ids, <<",">>) = m_env.job_inputs.launched_jobs
              /\ \A n \in 1..Len(all_job_ids) : ~ Contains(all_job_ids[n], <<",">>)
              /\ \A n \in 1..Len(w_calls) : w_calls[n].dxid = all_job_ids[n]
        /\ w_pc = "raised" => m_env.out_file # None

C29_Witness ==
    /\ m_script = "check_jobs_complete_workflow"
    /\ w_pc = "raised"
    /\ Len(all_job_ids) = 2
    /\ all_job_ids[1] = analysis_1
    /\ w_idx = 2
    /\ m_env.out_file # None

\* the projects on the platform made for the config of the invocations
ProjectsOfConfig ==
    {n \in 1..Len(cloud_projects) :
        MatchesAnyPrefix(inv_script, RemoveAll(inv_args.input_config, dot_json),
                         cloud_projects[n].name)}

\* C24: when invocations for one config follow one another, then once one
\* of them has created the test project every later one finds that project
\* and returns its ID without creating another: there is never more than
\* one test project for the config.
C24_GetOrCreateIsIdempotent ==
    (inv_script # "none" /\ ~ inv_concurrent) =>
        /\ Cardinality(ProjectsOfConfig) <= 1
        /\ \A i \in 1..MaxInvocations, k \in 1..MaxInvocations :
              (i < k /\ inv[i].pc = "done" /\ inv[k].pc = "done") =>
                  /\ ~ inv[k].created
                  /\ inv[k].project_id = inv[i].project_id

\* C25: however two or more invocations of the workflow's script for one
\* config interleave, there is at most one test project for the config
\* afterwards, and no invocation fails with the 'Found multiple existing
\* 004 testing projects' assertion.
C25_NoDuplicateUnderInterleaving ==
    inv_script = "workflows/get_or_create_testing_project" =>
        /\ Cardinality(ProjectsOfConfig) <= 1
        /\ \A i \in 1..MaxInvocations : inv[i].pc # "raised"

\* C26: the tie check follows the ordering of the selection: when two live
\* configs of the assay carry highest versions that are equal under
\* semantic-version ordering, the RuntimeError is raised even if the two
\* version strings differ (1.2 and 1.2.0); one of two such configs is never
\* returned.
C26_TieBySemanticVersion ==
    FilterEnded =>
        ((\E k \in HighestOfAssay, m \in HighestOfAssay :
             /\ k # m
             /\ VersionEqual(config_files[k].version, config_files[m].version))
            => /\ c_pc = "raised"
               /\ c_exc.type = "RuntimeError")

\* C27: the 'No config file was found for <assay>' AssertionError is raised
\* only when the input holds no live config of the assay: with at least one
\* such config, whatever its version (0 included), the function returns a
\* config or raises the tie RuntimeError.
C27_NoConfigOnlyWhenNoneLive ==
    FilterEnded =>
        /\ c_exc.type = "AssertionError" => LiveOfAssay = {}
        /\ LiveOfAssay # {} => (c_pc = "returned" \/ c_exc.type = "RuntimeError")

AlreadyPresent ==
    {k \in 1..Len(fn_args.files) :
        /\ fn_args.files[k].in_test_project # <<>>
        /\ StartsWith(fn_args.files[k].folder,
                      <<"/", "o", "u", "t", "p", "u", "t", "/">>)}

\* the units of the move: the file IDs of the pairs
MoveUnits == {fn_calls[n][1] : n \in 1..Len(fn_calls)}

RunFolder ==
    <<"/", "G", "i", "t", "H", "u", "b", "_", "A", "c", "t", "i", "o",
      "n", "s", "_", "r", "u", "n", "-">> \o fn_args.run_id

=============================================================================
